---- MODULE Spec2Model ----
(***************************************************************************)
(* Model of the per-camera WebRTC fan-out of the media center:             *)
(*   - UCamera signaling and session table   (media-center/src/camera.cpp) *)
(*   - UWebSocketClient read loop       (include/iwebsocket_client.h)      *)
(*   - UCamera frame push loop              (media-center/src/camera.cpp)  *)
(*   - USignalingServer rooms      (media-center/src/camera-threads-varan) *)
(*                                                                         *)
(* Optional values (a JSON field that may be missing, a C pointer that may *)
(* be null) are sequences of length at most one: <<>> is "absent / null",  *)
(* <<v>> is "present with value v".  Candidate strings are sequences of    *)
(* one-character strings so that std::string::find is computed, not        *)
(* assumed.                                                                *)
(***************************************************************************)
EXTENDS Integers, Sequences, FiniteSets, TLC

\* ------------------------------------------------------------------ bounds
MaxMsgs == 3
MaxWire == 2
MaxFrames == 3
QueueCap == 1
MaxWriteQueue == 2
MaxSendQueue == 2
MaxSends == 3
MaxAttempts == 2
MaxObjects == 3
MaxHandled == 2
MaxQueueSize == 3
MaxQueuePushes == 6
MaxCapacity == 3
MaxRingPushes == 5

\* ------------------------------------------------------- program constants
ClientIds == {"c1", "c2"}
CameraName == "camera_1"

SIG_RET_FAULT == "fault"
SIG_RET_SUCCESS == "success"
SIG_TYPE_CONNECT == "connection"
SIG_SENDER_CAMERA == "camera"

Absent == <<>>
Some(v) == <<v>>

\* ------------------------------------------------- candidate / sdp strings
CandHost == <<"1", ".", "2">>
CandMdns == <<"a", ".", "l", "o", "c", "a", "l">>
CandNoDot == <<"l", "o", "c", "a", "l">>
EmptyString == <<>>
Candidates == {CandHost, CandMdns, CandNoDot}

DotLocal == <<".", "l", "o", "c", "a", "l">>
npos == 0 - 1

\* std::string::find(needle): index (0-based) of the first occurrence, or npos
StringFind(hay, needle) ==
    LET hits == {i \in 0..(Len(hay) - Len(needle)) :
                    \A j \in 1..Len(needle) : hay[i + j] = needle[j]}
    IN  IF hits = {} THEN npos
        ELSE CHOOSE i \in hits : \A k \in hits : i <= k

IsMdnsCandidateNoCheck(candidate) == FALSE

\* the test of camera.cpp:785
IsMdnsCandidate(candidate) == StringFind(candidate, DotLocal) # npos

SdpOffer == "v=0 m=video 9 UDP/TLS/RTP/SAVPF 96"
SdpRemote == "v=0 a=recvonly"
Garbage == "<garbage>"

\* ------------------------------------------------------- inbound messages
\* What boost::json::parse and the if_contains / is_string tests of
\* on_signaling_message can tell apart: not JSON at all, or an object whose
\* fields are present as strings or not.
InMsg(j, c, t, s, k) ==
    [json |-> j, client_id |-> c, type |-> t, sdp |-> s, candidate |-> k]

Malformed == InMsg(FALSE, Absent, Absent, Absent, Absent)
NoClientId == InMsg(TRUE, Absent, Some("connection"), Absent, Absent)
NoType(c) == InMsg(TRUE, Some(c), Absent, Absent, Absent)
Connection(c) == InMsg(TRUE, Some(c), Some("connection"), Absent, Absent)
Offer(c, s) == InMsg(TRUE, Some(c), Some("offer"), s, Absent)
Answer(c, s) == InMsg(TRUE, Some(c), Some("answer"), s, Absent)
Ice(c, k) == InMsg(TRUE, Some(c), Some("ice"), Absent, k)
Other(c) == InMsg(TRUE, Some(c), Some("close"), Absent, Absent)

InboundMsgs ==
    {Malformed, NoClientId}
    \cup {NoType(c) : c \in ClientIds}
    \cup {Connection(c) : c \in ClientIds}
    \cup {Offer(c, s) : c \in ClientIds, s \in {Absent, Some(SdpRemote)}}
    \cup {Answer(c, s) : c \in ClientIds, s \in {Absent, Some(SdpRemote)}}
    \cup {Ice(c, k) : c \in ClientIds, k \in {Absent} \cup {Some(x) : x \in Candidates}}
    \cup {Other(c) : c \in ClientIds}

\* ------------------------------------------------------ outbound messages
OutMsg(t, r, c, cam, snd, d, s, k) ==
    [type |-> t, ret |-> r, client_id |-> c, camera |-> cam, sender |-> snd,
     description |-> d, sdp |-> s, candidate |-> k]

\* UCamera::json(const FWebRtcSession*, bool, type, description)
JsonSession(session, successed, type, description) ==
    IF session = Absent
    THEN OutMsg(type, Some(SIG_RET_FAULT), Absent, Absent, Absent,
                "Attempt to establish with non-existing session!", Absent, Absent)
    ELSE OutMsg(type, Some(IF successed THEN SIG_RET_SUCCESS ELSE SIG_RET_FAULT),
                Some(session[1].client_id), Some(session[1].camera_name), Absent,
                description, Absent, Absent)

\* UCamera::json(camera, client, bool, type, description)
JsonNames(camera, client, successed, type, description) ==
    OutMsg(type, Some(IF successed THEN SIG_RET_SUCCESS ELSE SIG_RET_FAULT),
           Some(client), Some(camera), Some(SIG_SENDER_CAMERA),
           description, Absent, Absent)

\* FWebRtcSession(client_id, camera_name, callback)
FWebRtcSession(client_id) == [client_id |-> client_id, camera_name |-> CameraName]

\* ------------------------------------------------------------ camera state
VARIABLES
    alive,              \* FALSE once undefined behaviour has ended the process
    m_gst_initialized,  \* create_gst_pipeline_webrtc succeeded: pipeline, appsrc, tee exist
    pipelineState,      \* GstState of m_webrtcbin_pipeline
    m_opened_sessions,  \* keys of the std::map m_opened_sessions
    m_has_sessions,
    binBranches,        \* per client: queue+webrtcbin pairs held by the pipeline bin
    teePads,            \* requested src pads on m_webrtcbin_tee
    remoteDesc,         \* per client: set-remote-description was emitted on its webrtcbin
    localDesc,          \* per client: set-local-description was emitted on its webrtcbin
    negotiated,         \* per client: on-negotiation-needed has fired for its webrtcbin
    iceAgent,           \* per client: candidates handed to add-ice-candidate
    iceConnected,       \* per client: ice-connection-state of its webrtcbin is connected
    wsState,            \* UWebSocketClient: "connecting", "reading", "waiting" (timer armed),
                        \* "stopped" (io thread joined)
    wire,               \* inbound frames of the websocket, oldest first
    arrivals,           \* number of frames that have arrived
    handledSeq,         \* arrival number of the frame the read handler took last
    data,               \* the frame passed to on_signaling_message by the last step
    outbound            \* the messages passed to send_message by the last step

sessVars ==
    <<m_opened_sessions, m_has_sessions, binBranches, teePads, pipelineState,
      remoteDesc, localDesc, negotiated, iceAgent, iceConnected>>
chanVars == <<wsState, wire, arrivals, handledSeq>>
camVars == <<alive, m_gst_initialized, sessVars, chanVars, data, outbound>>

GstStates == {"NULL", "READY", "PAUSED", "PLAYING"}

InitCamera ==
    /\ alive = TRUE
    /\ m_gst_initialized = FALSE
    /\ pipelineState = "NULL"
    /\ m_opened_sessions = {}
    /\ m_has_sessions = FALSE
    /\ binBranches = [c \in ClientIds |-> 0]
    /\ teePads = 0
    /\ remoteDesc = [c \in ClientIds |-> FALSE]
    /\ localDesc = [c \in ClientIds |-> FALSE]
    /\ negotiated = [c \in ClientIds |-> FALSE]
    /\ iceAgent = [c \in ClientIds |-> {}]
    /\ iceConnected = [c \in ClientIds |-> FALSE]
    /\ wsState = "connecting"
    /\ wire = <<>>
    /\ arrivals = 0
    /\ handledSeq = 0
    /\ data = Absent
    /\ outbound = <<>>

\* --------------------------------------------------- signaling server rooms
Channels == {"ch1", "ch2"}
RoomIds == {CameraName, "default", ""}

\* request targets, as sequences of pieces: a slash, a name
Targets == {<<>>, <<"/">>, <<"/", CameraName>>, <<CameraName>>}

\* the client whose viewer opened the channel
Viewer(ch) == IF ch = "ch1" THEN "c1" ELSE "c2"

VARIABLES
    m_rooms,            \* USignalingServer::m_rooms: room id -> sessions joined ({}: no entry)
    m_cameras,          \* rooms with a registered camera
    m_closed,           \* UWSSession::m_closed
    m_write_queue,      \* UWSSession::m_write_queue
    written,            \* per channel: the addressees of the messages written to it
    wsWrites,           \* per channel: async_write operations not yet completed
    stuck,              \* per channel: its strand never runs another handler
    m_req               \* per channel: target of the HTTP request read, if any

roomVars ==
    <<m_rooms, m_cameras, m_closed, m_write_queue, written, wsWrites, stuck, m_req>>

InitRoom ==
    /\ m_rooms = [r \in RoomIds |-> {}]
    /\ m_cameras = {}
    /\ m_closed = [ch \in Channels |-> FALSE]
    /\ m_write_queue = [ch \in Channels |-> <<>>]
    /\ written = [ch \in Channels |-> {}]
    /\ wsWrites = [ch \in Channels |-> 0]
    /\ stuck = [ch \in Channels |-> FALSE]
    /\ m_req = [ch \in Channels |-> Absent]

\* ------------------------------------------------- frame push loop state
VARIABLES
    m_running,          \* std::atomic<bool> m_running
    pushPc,             \* push thread: "wait" (loop head), "blocked" (asleep on the
                        \* session cv), "pop" (frame queue), "done"
    stopPc,             \* UCamera::stop: "none" (not running) or "join" (at the joins)
    m_frames_buffer,    \* USafeQueue<std::unique_ptr<FDrmFrame>>, oldest first
    fdTable,            \* every descriptor created so far: times closed, current owner
    produced,           \* number of frames constructed
    inEncoder,          \* buffers appsrc accepted: each the set of descriptors it carries
    strayUnrefs,        \* gst_buffer_unref calls made on a reference already given away
    lastPts             \* GST_BUFFER_PTS of the buffer appsrc accepted last (0: none)

pushVars ==
    <<m_running, pushPc, stopPc, m_frames_buffer, fdTable, produced, inEncoder,
      strayUnrefs, lastPts>>

InitPush ==
    /\ m_running = FALSE
    /\ pushPc = "wait"
    /\ stopPc = "none"
    /\ m_frames_buffer = <<>>
    /\ fdTable = <<>>
    /\ produced = 0
    /\ inEncoder = {}
    /\ strayUnrefs = 0
    /\ lastPts = 0

\* -------------------------------------- websocket client write path state
VARIABLES
    m_send_queue,       \* UWebSocketClient::m_send_queue, oldest first
    asyncWrites,        \* async_write operations of the client not yet completed
    lastWrite,          \* how the last completed write ended: "none", "ok", "failed"
    sendCalls,          \* calls of UWebSocketClient::send made so far
    lastWritten         \* the call whose message was written last (0: none yet)

sendVars == <<m_send_queue, asyncWrites, lastWrite, sendCalls, lastWritten>>

InitSend ==
    /\ m_send_queue = <<>>
    /\ asyncWrites = 0
    /\ lastWrite = "none"
    /\ sendCalls = 0
    /\ lastWritten = 0

\* ------------------------------------------------------ camera probe state
VARIABLES
    codec_name,         \* FInternalCameraOpts::codec_name ("": not detected)
    width,              \* FInternalCameraOpts::width
    height,             \* FInternalCameraOpts::height
    framerate_num,      \* FInternalCameraOpts::framerate_num
    framerate_den,      \* FInternalCameraOpts::framerate_den
    ready,              \* FInternalCameraOpts::ready
    probePc,            \* probe_camera_with_reconnect: "idle", "sdp" (waiting for the
                        \* codec), "caps" (waiting for ready), "sleep", "done"
    attempts,           \* its argument
    attempt,            \* its loop counter i
    tries,              \* calls of try_camera_probe made
    sleeps,             \* sleep_for(reconnect_delay_sec) calls made
    error_out,          \* the error text of the last failed try
    probeResult,        \* "none", "true" (returned true), "throw" (runtime_error)
    codecSeen,          \* on_rtsp_pad_added has stored a codec name during the current try
    capsSeen            \* on_parser_event has set ready during the current try

probeVars ==
    <<codec_name, width, height, framerate_num, framerate_den, ready, probePc,
      attempts, attempt, tries, sleeps, error_out, probeResult, codecSeen, capsSeen>>

InitProbe ==
    /\ codec_name = ""
    /\ width = 0
    /\ height = 0
    /\ framerate_num = 0
    /\ framerate_den = 0
    /\ ready = FALSE
    /\ probePc = "idle"
    /\ attempts = 0
    /\ attempt = 0
    /\ tries = 0
    /\ sleeps = 0
    /\ error_out = ""
    /\ probeResult = "none"
    /\ codecSeen = FALSE
    /\ capsSeen = FALSE

\* ------------------------------------------------------ media center state
\* the camera names of the configuration, in the iteration order of UMediaCenter::m_cameras
CamOrder == <<"cam1", "cam2">>

CamNames == {CamOrder[k] : k \in DOMAIN CamOrder}

VARIABLES
    center_cameras,             \* UMediaCenter::m_cameras: name -> Absent, or
                                \* Some(the UCamera object made for it)
    cam_initialized,            \* name -> UCamera::m_initialized of that object
    cam_gst_initialized,        \* name -> UCamera::m_gst_initialized (its GLib loop
                                \* thread is then running and joinable)
    cam_running,                \* name -> UCamera::m_running
    m_camera_initialization,    \* UMediaCenter::m_camera_initialization
    centerPc,                   \* "idle"; "pass", "sleep" inside initialize_cameras;
                                \* "blocked" in a join that never returns; "thrown": an
                                \* exception left initialize_cameras; "terminated"
    camera_nums,                \* initialize_cameras' local
    objects,                    \* UCamera objects constructed so far
    lastCall                    \* <<method, argument, outcome>> of the latest call

centerVars ==
    <<center_cameras, cam_initialized, cam_gst_initialized, cam_running,
      m_camera_initialization, centerPc, camera_nums, objects, lastCall>>

InitCenter ==
    /\ center_cameras = [n \in CamNames |-> Absent]
    /\ cam_initialized = [n \in CamNames |-> FALSE]
    /\ cam_gst_initialized = [n \in CamNames |-> FALSE]
    /\ cam_running = [n \in CamNames |-> FALSE]
    /\ m_camera_initialization = FALSE
    /\ centerPc = "idle"
    /\ camera_nums = 0
    /\ objects = 0
    /\ lastCall = <<"none", "", "">>

\* ------------------------------------- threads in on_signaling_message
\* the threads that call UCamera::on_signaling_message: the camera's websocket
\* thread (camera.cpp:628) and the server's io thread
\* (camera-threads-varan.cpp:556)
Threads == {"client_io", "server_io"}

VARIABLES
    thrPc,              \* per thread: "idle", "find", "build", "lock", "insert", "reply"
    thrMsg,             \* per thread: the message it is handling
    handled,            \* per thread: messages it has handled
    m_session_mutex,    \* Absent, or Some(thread holding it)
    mutating,           \* a thread is inside m_opened_sessions[client_id] = ...
    racedRead,          \* a find has run while another thread was mutating the map
    established         \* per client: success replies to its connection requests

thrVars ==
    <<thrPc, thrMsg, handled, m_session_mutex, mutating, racedRead, established>>

InitThreads ==
    /\ thrPc = [t \in Threads |-> "idle"]
    /\ thrMsg = [t \in Threads |-> Absent]
    /\ handled = [t \in Threads |-> 0]
    /\ m_session_mutex = Absent
    /\ mutating = FALSE
    /\ racedRead = FALSE
    /\ established = [c \in ClientIds |-> 0]

\* ------------------------------------------------------ USafeQueue state
VARIABLES
    m_max_size,         \* USafeQueue::m_max_size (Absent: not constructed yet)
    m_queue,            \* USafeQueue::m_queue, oldest first
    queueState,         \* "ok"; "corrupt", "dead" after pop() of an empty std::queue
    queuePushes,        \* push calls made; the item pushed is the number of its call
    queueRet,           \* what the last wait_and_pop returned (Absent: none yet)
    queueOldest         \* the oldest item held when the last wait_and_pop was called

queueVars == <<m_max_size, m_queue, queueState, queuePushes, queueRet, queueOldest>>

InitQueue ==
    /\ m_max_size = Absent
    /\ m_queue = <<>>
    /\ queueState = "ok"
    /\ queuePushes = 0
    /\ queueRet = Absent
    /\ queueOldest = Absent

\* ----------------------------------------------------- URingBuffer state
VARIABLES
    m_capacity,         \* URingBuffer::m_capacity (0: not constructed yet)
    m_buffer,           \* URingBuffer::m_buffer: slot -> item (0: empty pointer)
    m_head,
    m_tail,
    m_full,
    fifo,               \* the bounded FIFO the ring is compared with, oldest first
    ringPushes,         \* push calls made; the item pushed is the number of its call
    ringOp,             \* the last call: "none", "push", "pop", "peek"
    ringRet,            \* what it returned (Absent: nothing, std::nullopt)
    fifoRet             \* what the FIFO gives for the same call

ringVars ==
    <<m_capacity, m_buffer, m_head, m_tail, m_full, fifo, ringPushes, ringOp, ringRet,
      fifoRet>>

InitRing ==
    /\ m_capacity = 0
    /\ m_buffer = <<>>
    /\ m_head = 0
    /\ m_tail = 0
    /\ m_full = FALSE
    /\ fifo = <<>>
    /\ ringPushes = 0
    /\ ringOp = "none"
    /\ ringRet = Absent
    /\ fifoRet = Absent

\* the state of the components declared after the push loop
extVars == <<sendVars, probeVars, centerVars, thrVars, queueVars, ringVars>>

InitExt ==
    InitSend /\ InitProbe /\ InitCenter /\ InitThreads /\ InitQueue /\ InitRing

\* UCamera::create_gst_pipeline_webrtc: gst_pipeline_new leaves the pipeline
\* in GST_STATE_NULL; no state is requested before the first session.
create_gst_pipeline_webrtc ==
    /\ UNCHANGED <<roomVars, pushVars, extVars>>
    /\ alive
    /\ ~m_gst_initialized
    /\ m_gst_initialized' = TRUE
    /\ data' = Absent
    /\ outbound' = <<>>
    /\ UNCHANGED <<alive, sessVars, chanVars>>

\* UCamera::set_streaming_pipeline_state: the states the pipeline can be in
\* when the call returns.  Going down to NULL is synchronous; going up either
\* succeeds or (ret != GST_STATE_CHANGE_SUCCESS, only logged) leaves the
\* pipeline in the state it had.
SetStateResults(state) ==
    IF state = "NULL" THEN {"NULL"} ELSE {state, pipelineState}

\* The outcomes of the element / pad calls of open_new_session, in code order
OpenOutcomes ==
    {"make_fail", "request_pad_fail", "sink_pad_fail", "pad_link_fail",
     "element_link_fail", "ok"}

InBin(o) == o # "make_fail"
PadRequested(o) == o \notin {"make_fail", "request_pad_fail"}

\* The replies a create-offer promise can carry (camera.cpp:1020-1045):
\* no reply structure, no offer in it, an offer whose text conversion
\* yields NULL, or an offer with its SDP text.
PromiseReplies ==
    {[reply |-> FALSE, offer |-> FALSE, text |-> Absent],
     [reply |-> TRUE, offer |-> FALSE, text |-> Absent],
     [reply |-> TRUE, offer |-> TRUE, text |-> Absent],
     [reply |-> TRUE, offer |-> TRUE, text |-> Some(SdpOffer)]}

SdpTextUnchecked(sdp_str) == TRUE

\* camera.cpp:1041  if (!sdp_str) return
SdpTextUsable(sdp_str) == sdp_str # Absent

\* UCamera::on_offer_created: what it passes to send_message for a reply p
OfferSent(client_id, p) ==
    IF p.reply /\ p.offer /\ SdpTextUsable(p.text)
    THEN <<[JsonSession(Some(FWebRtcSession(client_id)), TRUE, "offer",
                        "Created sdp offer!") EXCEPT !.sdp = p.text]>>
    ELSE <<>>

\* camera.cpp:918-936: on-negotiation-needed is connected, and the pipeline
\* may be set to PLAYING, before the success reply is sent; the callback runs
\* on webrtcbin's thread, so by the time the reply reaches send_message the
\* offer callback has either not run yet (<<>>) or has run with some reply.
EarlyOffers == {Absent} \cup {Some(p) : p \in PromiseReplies}

AlreadyOpenedNever(client_id) == FALSE

\* camera.cpp:833  m_opened_sessions.find(client_id) != end()
AlreadyOpened(client_id) == client_id \in m_opened_sessions

FreshSession(f, c, v) == [f EXCEPT ![c] = v]

TeeMissingUnchecked == FALSE

\* camera.cpp:842: !m_webrtcbin_tee; the tee is assigned only by
\* create_gst_pipeline_webrtc, just before it sets m_gst_initialized
TeeMissing == ~m_gst_initialized

\* UCamera::open_new_session
open_new_session(client_id) ==
    IF AlreadyOpened(client_id)
    THEN /\ outbound' = <<JsonNames(CameraName, client_id, FALSE, SIG_TYPE_CONNECT,
                            "Session with this client has already started!")>>
         /\ UNCHANGED <<alive, sessVars>>
    ELSE IF TeeMissing
    THEN /\ outbound' = <<JsonNames(CameraName, client_id, FALSE, SIG_TYPE_CONNECT,
                            "Internal error with tee!")>>
         /\ UNCHANGED <<alive, sessVars>>
    ELSE \E o \in OpenOutcomes :
         /\ binBranches' = [binBranches EXCEPT
                                ![client_id] = @ + (IF InBin(o) THEN 1 ELSE 0)]
         /\ teePads' = teePads + (IF PadRequested(o) THEN 1 ELSE 0)
         /\ IF o # "ok"
            THEN /\ outbound' = <<JsonSession(Some(FWebRtcSession(client_id)), FALSE,
                                    SIG_TYPE_CONNECT, "Internal error!")>>
                 /\ UNCHANGED <<alive, m_opened_sessions, m_has_sessions, pipelineState,
                                remoteDesc, localDesc, negotiated, iceAgent,
                                iceConnected>>
            ELSE /\ m_opened_sessions' = m_opened_sessions \cup {client_id}
                 /\ remoteDesc' = FreshSession(remoteDesc, client_id, FALSE)
                 /\ iceAgent' = FreshSession(iceAgent, client_id, {})
                 /\ iceConnected' = FreshSession(iceConnected, client_id, FALSE)
                 /\ IF ~m_has_sessions
                    THEN pipelineState' \in SetStateResults("PLAYING")
                    ELSE UNCHANGED pipelineState
                 /\ m_has_sessions' = TRUE
                 /\ \E early \in EarlyOffers :
                      /\ negotiated' = FreshSession(negotiated, client_id, early # Absent)
                      /\ localDesc' = FreshSession(localDesc, client_id,
                                         early # Absent /\ early[1].reply /\ early[1].offer)
                      /\ outbound' =
                           (IF early = Absent THEN <<>> ELSE OfferSent(client_id, early[1]))
                           \o <<JsonSession(Some(FWebRtcSession(client_id)), TRUE,
                                            SIG_TYPE_CONNECT, "established")>>
                 /\ UNCHANGED alive

\* What the read of `session` after m_opened_sessions.erase(client_id) can
\* yield (camera.cpp:949, 960, 967): the reference dangles, so the build may
\* still see the old strings, see other bytes, or fault.
DanglingReads == {"stale", "garbage", "fault"}

TableEmptyNever(table) == FALSE

\* camera.cpp:961  m_opened_sessions.size() == 0
TableEmpty(table) == table = {}

\* UCamera::close_session
close_session(client_id) ==
    /\ UNCHANGED <<roomVars, pushVars, extVars>>
    /\ alive
    /\ data' = Absent
    /\ UNCHANGED <<m_gst_initialized, chanVars>>
    /\ IF client_id \notin m_opened_sessions
       THEN /\ outbound' = <<JsonNames(CameraName, "unknown", FALSE, SIG_TYPE_CONNECT,
                               "There are no one opened sessions!")>>
            /\ UNCHANGED <<alive, sessVars>>
       ELSE /\ binBranches' = [binBranches EXCEPT ![client_id] = @ - 1]
            /\ m_opened_sessions' = m_opened_sessions \ {client_id}
            /\ remoteDesc' = FreshSession(remoteDesc, client_id, FALSE)
            /\ localDesc' = FreshSession(localDesc, client_id, FALSE)
            /\ negotiated' = FreshSession(negotiated, client_id, FALSE)
            /\ iceAgent' = FreshSession(iceAgent, client_id, {})
            /\ iceConnected' = FreshSession(iceConnected, client_id, FALSE)
            /\ IF TableEmpty(m_opened_sessions \ {client_id})
               THEN /\ m_has_sessions' = FALSE
                    /\ pipelineState' \in SetStateResults("NULL")
               ELSE UNCHANGED <<m_has_sessions, pipelineState>>
            /\ UNCHANGED teePads
            /\ \E u \in DanglingReads :
                 CASE u = "stale" ->
                        /\ outbound' = <<JsonSession(Some(FWebRtcSession(client_id)), FALSE,
                                           SIG_TYPE_CONNECT, "closed")>>
                        /\ UNCHANGED alive
                   [] u = "garbage" ->
                        /\ outbound' = <<JsonSession(
                                           Some([client_id |-> Garbage, camera_name |-> Garbage]),
                                           FALSE, SIG_TYPE_CONNECT, "closed")>>
                        /\ UNCHANGED alive
                   [] u = "fault" ->
                        /\ outbound' = <<>>
                        /\ alive' = FALSE

\* camera.cpp:727  g_signal_emit_by_name(cur_webrtc, "create-answer", nullptr):
\* the signal takes (options, promise) and only options is passed, so the
\* promise is whatever the argument list holds next.  webrtcbin either
\* rejects it (no promise: the answer it creates goes nowhere) or faults on
\* it.  No callback of the camera receives an answer in either case.
CreateAnswerOutcomes == {"no_promise", "fault"}

\* camera.cpp:762-767: a missing or non-string candidate leaves the empty string
CandidateOf(msg) == IF msg.candidate = Absent THEN EmptyString ELSE msg.candidate[1]

\* camera.cpp:656-680: text that does not parse, is not an object, or lacks a
\* string client_id or type
Unusable(msg) == ~msg.json \/ msg.client_id = Absent \/ msg.type = Absent

DiscardMessageWithReply ==
    /\ outbound' = <<JsonNames(CameraName, "unknown", FALSE, SIG_TYPE_CONNECT,
                               "Internal error!")>>
    /\ UNCHANGED <<alive, sessVars>>

\* camera.cpp:665-669, 676-680, 808-811: the handler logs and returns
DiscardMessage ==
    /\ outbound' = <<>>
    /\ UNCHANGED <<alive, sessVars>>

\* UCamera::on_signaling_message
on_signaling_message(msg) ==
    IF Unusable(msg)
    THEN DiscardMessage
    ELSE LET client_id == msg.client_id[1]
             type == msg.type[1]
         IN
         IF type = "connection" THEN open_new_session(client_id)
         ELSE IF client_id \notin m_opened_sessions
         THEN /\ outbound' = <<>>
              /\ UNCHANGED <<alive, sessVars>>
         ELSE IF type \in {"offer", "answer"}
         THEN /\ outbound' = <<>>
              /\ remoteDesc' = IF msg.sdp = Absent THEN remoteDesc
                               ELSE [remoteDesc EXCEPT ![client_id] = TRUE]
              /\ IF type = "offer" /\ msg.sdp # Absent
                 THEN \E o \in CreateAnswerOutcomes : alive' = (o # "fault")
                 ELSE UNCHANGED alive
              /\ UNCHANGED <<m_opened_sessions, m_has_sessions, binBranches,
                             teePads, pipelineState, localDesc, negotiated, iceAgent,
                             iceConnected>>
         ELSE IF type = "ice"
         THEN /\ outbound' = <<>>
              /\ iceAgent' = IF IsMdnsCandidate(CandidateOf(msg)) THEN iceAgent
                             ELSE [iceAgent EXCEPT ![client_id] = @ \cup {CandidateOf(msg)}]
              /\ UNCHANGED <<alive, m_opened_sessions, m_has_sessions, binBranches,
                             teePads, pipelineState, remoteDesc, localDesc, negotiated,
                             iceConnected>>
         ELSE /\ outbound' = <<>>
              /\ UNCHANGED <<alive, sessVars>>

\* A frame reaches the websocket of the camera.  The frame is known by its
\* arrival number; its text is seen by the program only when async_read
\* completes, and is drawn there.
Arrive ==
    /\ UNCHANGED <<roomVars, pushVars, extVars>>
    /\ alive
    /\ wsState = "reading"
    /\ arrivals < MaxMsgs
    /\ Len(wire) < MaxWire
    /\ arrivals' = arrivals + 1
    /\ wire' = Append(wire, arrivals + 1)
    /\ data' = Absent
    /\ outbound' = <<>>
    /\ UNCHANGED <<alive, m_gst_initialized, sessVars, wsState, handledSeq>>

ReadNewest(w) == [frame |-> w[Len(w)], rest |-> SubSeq(w, 1, Len(w) - 1)]

\* iwebsocket_client.h:137-146  async_read completes with the next frame of
\* the stream; buffers_to_string / consume take it off the buffer.
ReadFrame(w) == [frame |-> Head(w), rest |-> Tail(w)]

\* UWebSocketClient::do_read completion handler (ec not set): the callback
\* runs to its end on the io_context thread, then do_read is re-armed.
do_read ==
    /\ UNCHANGED <<roomVars, pushVars, extVars>>
    /\ alive
    /\ wsState = "reading"
    /\ wire # <<>>
    /\ LET r == ReadFrame(wire)
       IN  /\ wire' = r.rest
           /\ handledSeq' = r.frame
    /\ \E msg \in InboundMsgs :
           /\ data' = Some(msg)
           /\ on_signaling_message(msg)
    /\ UNCHANGED <<m_gst_initialized, wsState, arrivals>>

do_read_failed_closing ==
    /\ UNCHANGED <<roomVars, pushVars, extVars>>
    /\ alive
    /\ wsState = "reading"
    /\ wsState' = "waiting"
    /\ wire' = <<>>
    /\ data' = Absent
    /\ outbound' = <<>>
    /\ m_opened_sessions' = {}
    /\ m_has_sessions' = FALSE
    /\ UNCHANGED <<alive, m_gst_initialized, binBranches, teePads, pipelineState,
                   remoteDesc, localDesc, negotiated, iceAgent, iceConnected,
                   arrivals, handledSeq>>

\* UWebSocketClient::do_read completion handler with ec set: the frames still
\* in flight on the failed stream are lost, schedule_reconnect arms the timer.
do_read_failed ==
    /\ UNCHANGED <<roomVars, pushVars, extVars>>
    /\ alive
    /\ wsState = "reading"
    /\ wsState' = "waiting"
    /\ wire' = <<>>
    /\ data' = Absent
    /\ outbound' = <<>>
    /\ UNCHANGED <<alive, m_gst_initialized, sessVars, arrivals, handledSeq>>

\* UWebSocketClient::start_resolve / on_connect / on_handshake: one attempt,
\* which ends in do_read (ok) or in schedule_reconnect (any ec)
connect_attempt(ok) ==
    /\ UNCHANGED <<roomVars, pushVars, extVars>>
    /\ alive
    /\ wsState = "connecting"
    /\ wsState' = IF ok THEN "reading" ELSE "waiting"
    /\ data' = Absent
    /\ outbound' = <<>>
    /\ UNCHANGED <<alive, m_gst_initialized, sessVars, wire, arrivals, handledSeq>>

\* UWebSocketClient::schedule_reconnect: the timer fires, start_resolve runs
reconnect_timer ==
    /\ UNCHANGED <<roomVars, pushVars, extVars>>
    /\ alive
    /\ wsState = "waiting"
    /\ wsState' = "connecting"
    /\ data' = Absent
    /\ outbound' = <<>>
    /\ UNCHANGED <<alive, m_gst_initialized, sessVars, wire, arrivals, handledSeq>>

\* ----------------------------------------- websocket client write path
\* the texts handed to UWebSocketClient::send (the write path never reads them)
SendTexts == {"offer"}

\* what lies outside the client's write path
sendRest ==
    <<camVars, roomVars, pushVars, probeVars, centerVars, thrVars, queueVars, ringVars>>

WriteInProgressNever == FALSE

\* iwebsocket_client.h:47  bool write_in_progress = !self->m_send_queue.empty()
WriteInProgress == m_send_queue # <<>>

PushFront(queue, item) == <<item>> \o queue

\* iwebsocket_client.h:48  self->m_send_queue.push_back(message)
PushBack(queue, item) == Append(queue, item)

\* UWebSocketClient::send: the posted lambda runs on the io_context thread,
\* the only thread in m_io_context.run(), which runs posted handlers in the
\* order of the posts; UCamera::send_message makes the calls one at a time
\* under m_signal_mutex. A queued message carries the number of its call.
send(message) ==
    /\ alive
    /\ wsState # "stopped"
    /\ Len(m_send_queue) < MaxSendQueue
    /\ sendCalls < MaxSends
    /\ sendCalls' = sendCalls + 1
    /\ m_send_queue' = PushBack(m_send_queue, [text |-> message, call |-> sendCalls + 1])
    /\ asyncWrites' = IF WriteInProgress THEN asyncWrites ELSE asyncWrites + 1
    /\ UNCHANGED <<lastWrite, lastWritten, sendRest>>

\* UWebSocketClient::do_write completion handler: an error clears the queue
\* and returns; otherwise the front is popped and the next write is started.
\* A write can only succeed on an established connection.
write_done(ok) ==
    /\ alive
    /\ wsState # "stopped"
    /\ asyncWrites > 0
    /\ ok => wsState = "reading"
    /\ IF ok
       THEN /\ m_send_queue' = Tail(m_send_queue)
            /\ asyncWrites' = IF Tail(m_send_queue) # <<>> THEN asyncWrites
                              ELSE asyncWrites - 1
            /\ lastWrite' = "ok"
            /\ lastWritten' = Head(m_send_queue).call
       ELSE /\ m_send_queue' = <<>>
            /\ asyncWrites' = asyncWrites - 1
            /\ lastWrite' = "failed"
            /\ UNCHANGED lastWritten
    /\ UNCHANGED <<sendCalls, sendRest>>

\* UCamera::on_negotiation_needed and the UCamera::on_offer_created it arms
on_negotiation_needed(client_id) ==
    /\ UNCHANGED <<roomVars, pushVars, extVars>>
    /\ alive
    /\ client_id \in m_opened_sessions
    /\ ~negotiated[client_id]
    /\ negotiated' = [negotiated EXCEPT ![client_id] = TRUE]
    /\ data' = Absent
    /\ \E p \in PromiseReplies :
         /\ localDesc' = IF p.reply /\ p.offer
                         THEN [localDesc EXCEPT ![client_id] = TRUE] ELSE localDesc
         /\ outbound' = OfferSent(client_id, p)
    /\ UNCHANGED <<alive, m_gst_initialized, chanVars, m_opened_sessions, m_has_sessions,
                   binBranches, teePads, pipelineState, remoteDesc, iceAgent,
                   iceConnected>>

\* UCamera::on_ice_candidate
on_ice_candidate(client_id) ==
    /\ UNCHANGED <<roomVars, pushVars, extVars>>
    /\ alive
    /\ client_id \in m_opened_sessions
    /\ localDesc[client_id]
    /\ data' = Absent
    /\ outbound' = <<[JsonSession(Some(FWebRtcSession(client_id)), TRUE, "ice",
                                  "Sending Ice candidate") EXCEPT !.candidate = Some(CandHost)]>>
    /\ UNCHANGED <<alive, m_gst_initialized, chanVars, sessVars>>

\* UCamera::on_ice_connection_state: webrtcbin reports that the ICE connection
\* of a session with both descriptions set is connected. The handler has an
\* empty body and open_new_session connects no signal to it.
on_ice_connection_state(client_id) ==
    /\ UNCHANGED <<roomVars, pushVars, extVars>>
    /\ alive
    /\ client_id \in m_opened_sessions
    /\ negotiated[client_id] /\ localDesc[client_id] /\ remoteDesc[client_id]
    /\ ~iceConnected[client_id]
    /\ iceConnected' = [iceConnected EXCEPT ![client_id] = TRUE]
    /\ data' = Absent
    /\ outbound' = <<>>
    /\ UNCHANGED <<alive, m_gst_initialized, chanVars, m_opened_sessions, m_has_sessions,
                   binBranches, teePads, pipelineState, remoteDesc, localDesc, negotiated,
                   iceAgent>>

\* The state of a client's session as the camera records it: FWebRtcSession
\* has no state field, a session is only present in m_opened_sessions or not.
SessionState(client_id) ==
    IF client_id \in m_opened_sessions THEN "NEGOTIATING" ELSE "IDLE"

\* ------------------------------------------------------- frame push loop
NewFd(tab, owner) == Append(tab, [closes |-> 0, owner |-> owner])

\* close(fd) / release of the memory that wraps fd, for every fd of S
CloseFds(tab, S) ==
    [i \in DOMAIN tab |->
        IF i \in S THEN [closes |-> tab[i].closes + 1, owner |-> "none"] ELSE tab[i]]

\* ~FDrmFrame (video_utility.h:206-210)
DestroyFrame(tab, frame) == IF frame.fd >= 0 THEN CloseFds(tab, {frame.fd}) ELSE tab

\* FDrmFrame as the push loop reads it: fd (-1: none), num_planes, offset[0]
FrameShapes == {[num_planes |-> 1, offset0 |-> 0], [num_planes |-> 2, offset0 |-> 0],
                [num_planes |-> 1, offset0 |-> 16]}

\* FDrmFrame::pts values a producer can stamp on a frame
PtsValues == {1, 2}

\* USafeQueue::push of a newly constructed frame; a full queue drops its oldest
\* (no_session records, for the properties, whether a session was attached
\* when the frame was queued; the program does not read it)
produce_frame(valid, shape, pts) ==
    /\ alive
    /\ produced < MaxFrames
    /\ produced' = produced + 1
    /\ LET tab1 == IF valid THEN NewFd(fdTable, "frame") ELSE fdTable
           frame == [fd |-> IF valid THEN Len(tab1) ELSE 0 - 1,
                     num_planes |-> shape.num_planes, offset0 |-> shape.offset0,
                     pts |-> pts,
                     no_session |-> ~m_has_sessions]
       IN  IF Len(m_frames_buffer) >= QueueCap
           THEN /\ m_frames_buffer' = Append(Tail(m_frames_buffer), frame)
                /\ fdTable' = DestroyFrame(tab1, Head(m_frames_buffer))
           ELSE /\ m_frames_buffer' = Append(m_frames_buffer, frame)
                /\ fdTable' = tab1
    /\ UNCHANGED <<m_running, pushPc, stopPc, inEncoder, strayUnrefs, lastPts, camVars,
                   roomVars, extVars>>

\* open_new_session / close_session as the push thread sees them: the flag
\* written at camera.cpp:934 and camera.cpp:962.  Only open_new_session
\* notifies m_session_cv (camera.cpp:937).
sessions_changed(has) ==
    /\ alive
    /\ m_has_sessions # has
    /\ m_has_sessions' = has
    /\ pushPc' = IF has /\ pushPc = "blocked" THEN "wait" ELSE pushPc
    /\ UNCHANGED <<alive, m_gst_initialized, m_opened_sessions, binBranches, teePads,
                   pipelineState, remoteDesc, localDesc, negotiated, iceAgent, iceConnected,
                   chanVars, data, outbound, roomVars, extVars>>
    /\ UNCHANGED <<m_running, stopPc, m_frames_buffer, fdTable, produced, inEncoder,
                   strayUnrefs, lastPts>>

\* UCamera::start
start ==
    /\ alive
    /\ stopPc = "none"
    /\ ~m_running
    /\ m_running' = TRUE
    /\ UNCHANGED <<pushPc, stopPc, m_frames_buffer, fdTable, produced, inEncoder,
                   strayUnrefs, lastPts, camVars, roomVars, extVars>>

\* the GLib main loop thread of create_gst_pipeline_webrtc (camera.cpp:499-503)
\* is inside g_main_loop_run: the only g_main_loop_quit is in stop, line 96
LoopRunning == m_gst_initialized

\* UCamera::stop, camera.cpp:91-93: the flag is cleared; m_session_cv is not
\* notified and nothing is pushed to m_frames_buffer
stop ==
    /\ alive
    /\ stopPc = "none"
    /\ m_running
    /\ m_running' = FALSE
    /\ stopPc' = "join"
    /\ UNCHANGED <<pushPc, m_frames_buffer, fdTable, produced, inEncoder, strayUnrefs, lastPts,
                   camVars, roomVars, extVars>>

\* UCamera::stop, camera.cpp:94-98: m_reading_thread is never started; the
\* join of m_gst_loop_thread returns once that thread has left
\* g_main_loop_run; then g_main_loop_quit, stop_websocket_client, return
stop_return ==
    /\ alive
    /\ stopPc = "join"
    /\ ~LoopRunning
    /\ stopPc' = "none"
    /\ wsState' = "stopped"
    /\ UNCHANGED <<m_running, pushPc, m_frames_buffer, fdTable, produced, inEncoder,
                   strayUnrefs, lastPts, roomVars, extVars>>
    /\ UNCHANGED <<alive, m_gst_initialized, sessVars, wire, arrivals, handledSeq,
                   data, outbound>>

\* camera.cpp:520-526  while (m_running) { m_session_cv.wait(lock, pred) }:
\* the thread goes to sleep when the predicate is false
push_wait ==
    /\ alive
    /\ pushPc = "wait"
    /\ pushPc' = IF ~m_running THEN "done"
                 ELSE IF m_has_sessions THEN "pop" ELSE "blocked"
    /\ UNCHANGED <<m_running, stopPc, m_frames_buffer, fdTable, produced, inEncoder,
                   strayUnrefs, lastPts, camVars, roomVars, extVars>>

\* std::condition_variable::wait may return without a notification; the
\* predicate is then evaluated again
spurious_wakeup ==
    /\ alive
    /\ pushPc = "blocked"
    /\ pushPc' = "wait"
    /\ UNCHANGED <<m_running, stopPc, m_frames_buffer, fdTable, produced, inEncoder,
                   strayUnrefs, lastPts, camVars, roomVars, extVars>>

PlaneOutcomes == {"ok", "dup_fail", "alloc_fail"}

\* camera.cpp:544-582: the descriptors duplicated for one frame.  `outs` gives
\* the outcome of dup / gst_dmabuf_allocator_alloc for each plane.  Result:
\* the table, the descriptors appended to the buffer, and whether the
\* iteration goes on to push it.
RECURSIVE DupPlanes(_, _, _, _, _)
DupPlanes(tab, held, i, n, outs) ==
    IF i > n THEN [tab |-> tab, held |-> held, fail |-> FALSE]
    ELSE IF outs[i] = "dup_fail"
    THEN [tab |-> tab, held |-> held, fail |-> TRUE]
    ELSE IF outs[i] = "alloc_fail"
    THEN LET rest == DupPlanes(CloseFds(NewFd(tab, "none"), {Len(tab) + 1}),
                               held, i + 1, n, outs)
         IN  [rest EXCEPT !.fail = TRUE]
    ELSE DupPlanes(NewFd(tab, "buffer"), held \cup {Len(tab) + 1}, i + 1, n, outs)

\* single-plane branch (camera.cpp:544-560): one dup, any failure abandons
SinglePlane(tab, out) ==
    IF out = "dup_fail" THEN [tab |-> tab, held |-> {}, fail |-> TRUE]
    ELSE IF out = "alloc_fail"
    THEN [tab |-> CloseFds(NewFd(tab, "none"), {Len(tab) + 1}), held |-> {}, fail |-> TRUE]
    ELSE [tab |-> NewFd(tab, "buffer"), held |-> {Len(tab) + 1}, fail |-> FALSE]

\* What the second gst_buffer_unref of a buffer whose only reference appsrc
\* already dropped can do: be refused by the refcount check, release the
\* memories again, or fault.
StrayUnrefOutcomes == {"refused", "released_again", "fault"}

\* GstFlowReturn of gst_app_src_push_buffer: GST_FLOW_OK or not
FlowReturns == {"OK", "FLUSHING"}

\* camera.cpp:528-612: one pass of the loop body, from wait_and_pop to the end
push_iteration(bufferOk, outs) ==
    /\ alive
    /\ pushPc = "pop"
    /\ m_frames_buffer # <<>>
    /\ pushPc' = "wait"
    /\ m_frames_buffer' = Tail(m_frames_buffer)
    /\ LET frame == Head(m_frames_buffer)
           built == IF frame.num_planes = 1 /\ frame.offset0 = 0
                    THEN SinglePlane(fdTable, outs[1])
                    ELSE DupPlanes(fdTable, {}, 1, frame.num_planes, outs)
       IN  IF frame.fd < 0 \/ ~bufferOk
           THEN /\ fdTable' = DestroyFrame(fdTable, frame)
                /\ UNCHANGED <<inEncoder, strayUnrefs, lastPts, alive>>
           ELSE IF built.fail \/ ~m_has_sessions
           THEN /\ fdTable' = DestroyFrame(CloseFds(built.tab, built.held), frame)
                /\ UNCHANGED <<inEncoder, strayUnrefs, lastPts, alive>>
           ELSE \E flow \in FlowReturns :
                  IF flow = "OK"
                  THEN /\ fdTable' = DestroyFrame(
                                        [i \in DOMAIN built.tab |->
                                           IF i \in built.held
                                           THEN [built.tab[i] EXCEPT !.owner = "encoder"]
                                           ELSE built.tab[i]], frame)
                       /\ inEncoder' = inEncoder \cup {built.held}
                       /\ lastPts' = frame.pts
                       /\ UNCHANGED <<strayUnrefs, alive>>
                  ELSE \* gst_app_src_push_buffer took the reference and dropped
                       \* it; the loop unrefs the buffer once more (606-608)
                       \E ub \in StrayUnrefOutcomes :
                          /\ inEncoder' = inEncoder
                          /\ strayUnrefs' = strayUnrefs + 1
                          /\ UNCHANGED lastPts
                          /\ fdTable' = DestroyFrame(
                                IF ub = "released_again"
                                THEN CloseFds(CloseFds(built.tab, built.held), built.held)
                                ELSE CloseFds(built.tab, built.held), frame)
                          /\ alive' = (ub # "fault")
    /\ UNCHANGED <<m_running, stopPc, produced, m_gst_initialized, sessVars, chanVars,
                   data, outbound, roomVars, extVars>>

\* the encoder is done with a buffer it accepted: its memories are released
encoder_release(buf) ==
    /\ alive
    /\ buf \in inEncoder
    /\ inEncoder' = inEncoder \ {buf}
    /\ fdTable' = CloseFds(fdTable, buf)
    /\ UNCHANGED <<m_running, pushPc, stopPc, m_frames_buffer, produced, strayUnrefs, lastPts,
                   camVars, roomVars, extVars>>

NextPush ==
    \/ \E valid \in BOOLEAN, shape \in FrameShapes, pts \in PtsValues :
            produce_frame(valid, shape, pts)
    \/ \E has \in BOOLEAN : sessions_changed(has)
    \/ start
    \/ stop
    \/ stop_return
    \/ push_wait
    \/ spurious_wakeup
    \/ \E bufferOk \in BOOLEAN, outs \in [1..2 -> PlaneOutcomes] :
            push_iteration(bufferOk, outs)
    \/ \E buf \in inEncoder : encoder_release(buf)

\* ------------------------------------------------ signaling server actions
\* the messages a camera hands to its signaling callback
RoomMsgs ==
    {JsonSession(Some(FWebRtcSession(c)), TRUE, SIG_TYPE_CONNECT, "established")
        : c \in ClientIds}

\* USignalingServer::join_room
join_room(rooms, room_id, session) == [rooms EXCEPT ![room_id] = @ \cup {session}]

\* USignalingServer::leave_room; an emptied room loses its entry
leave_room(rooms, room_id, session) == [rooms EXCEPT ![room_id] = @ \ {session}]

\* the std::string made of the pieces
Text(pieces) == IF pieces = <<>> THEN "" ELSE pieces[Len(pieces)]

\* UWSSession::on_http_read: the upgrade request has been read.  The room id
\* it derives (camera-threads-varan.cpp:157-159) is overwritten by on_accept
\* before anything reads it.
on_http_read(ch, target) ==
    /\ ~m_closed[ch] /\ ~stuck[ch]
    /\ m_req[ch] = Absent
    /\ m_req' = [m_req EXCEPT ![ch] = Some(target)]
    /\ UNCHANGED <<m_rooms, m_cameras, m_closed, m_write_queue, written, wsWrites, stuck,
                   camVars, pushVars, extVars>>

\* camera-threads-varan.cpp:206-218: the room id on_accept takes from the target
TargetRoom(target) ==
    IF target = <<>> THEN "default"
    ELSE IF Head(target) = "/" THEN Text(Tail(target))
    ELSE Text(target)

\* UWSSession::on_accept: the session joins the room its request names
on_accept(ch) ==
    /\ ~m_closed[ch] /\ ~stuck[ch]
    /\ m_req[ch] # Absent
    /\ \A r \in RoomIds : ch \notin m_rooms[r]
    /\ m_rooms' = join_room(m_rooms, TargetRoom(m_req[ch][1]), ch)
    /\ UNCHANGED <<m_cameras, m_closed, m_write_queue, written, wsWrites, stuck, m_req,
                   camVars, pushVars, extVars>>

\* UWSSession::on_read with an error code (closed by the viewer, or failed)
on_read_error(ch) ==
    /\ ~m_closed[ch] /\ ~stuck[ch]
    /\ \E r \in RoomIds :
         /\ ch \in m_rooms[r]
         /\ m_rooms' = leave_room(m_rooms, r, ch)
    /\ m_closed' = [m_closed EXCEPT ![ch] = TRUE]
    /\ UNCHANGED <<m_cameras, m_write_queue, written, wsWrites, stuck, m_req,
                   camVars, pushVars, extVars>>

\* USignalingServer::register_room_camera: the room is the camera's name
register_room_camera ==
    /\ CameraName \notin m_cameras
    /\ m_cameras' = m_cameras \cup {CameraName}
    /\ UNCHANGED <<m_rooms, m_closed, m_write_queue, written, wsWrites, stuck, m_req,
                   camVars, pushVars, extVars>>

\* UWSSession::send_text: nothing is posted for a closed session, and a
\* strand that is stuck never runs the posted lambda
send_text(queues, ch, message) ==
    IF m_closed[ch] \/ stuck[ch] THEN queues
    ELSE [queues EXCEPT ![ch] = Append(@, message)]

\* camera-threads-varan.cpp:297-301: the posted lambda calls do_write only
\* when the queue was empty before its push_back
StartsWrite(ch) == ~m_closed[ch] /\ ~stuck[ch] /\ m_write_queue[ch] = <<>>

\* USignalingServer::broadcast_to_room: the sessions the message is sent to
Recipients(room_id, message, exclude) ==
    {ch \in m_rooms[room_id] : ch # exclude}

\* the callback register_room_camera installs: broadcast_to_room(room, message, nullptr)
signaling_callback(message) ==
    /\ CameraName \in m_cameras
    /\ \A ch \in Channels : Len(m_write_queue[ch]) < MaxWriteQueue
    /\ m_write_queue' =
         [ch \in Channels |->
            IF ch \in Recipients(CameraName, message, "nullptr")
            THEN send_text(m_write_queue, ch, message)[ch]
            ELSE m_write_queue[ch]]
    /\ wsWrites' =
         [ch \in Channels |->
            IF ch \in Recipients(CameraName, message, "nullptr") /\ StartsWrite(ch)
            THEN wsWrites[ch] + 1
            ELSE wsWrites[ch]]
    /\ UNCHANGED <<m_rooms, m_cameras, m_closed, written, stuck, m_req,
                   camVars, pushVars, extVars>>

\* on_write calls do_write while it holds m_write_mutex, and do_write locks
\* the same std::mutex again (camera-threads-varan.cpp:331-337, 306): the
\* second lock is undefined.  It is granted, or the thread blocks for ever
\* with the strand, or an exception ends every handler of the server.
RelockOutcomes == {"proceeds", "deadlock", "fault"}

\* UWSSession::on_write: the front message was written, or the write failed
on_write(ch, ok) ==
    /\ ~stuck[ch]
    /\ wsWrites[ch] > 0
    /\ IF ok
       THEN /\ m_write_queue' = [m_write_queue EXCEPT ![ch] = Tail(@)]
            /\ written' = [written EXCEPT ![ch] = @ \cup {Head(m_write_queue[ch]).client_id}]
            /\ IF Tail(m_write_queue[ch]) = <<>>
               THEN /\ wsWrites' = [wsWrites EXCEPT ![ch] = @ - 1]
                    /\ UNCHANGED stuck
               ELSE \E o \in RelockOutcomes :
                      /\ wsWrites' = [wsWrites EXCEPT
                                        ![ch] = IF o = "proceeds" THEN @ ELSE @ - 1]
                      /\ stuck' = [c \in Channels |->
                                     IF o = "fault" \/ (o = "deadlock" /\ c = ch)
                                     THEN TRUE ELSE stuck[c]]
            /\ UNCHANGED <<m_rooms, m_closed>>
       ELSE /\ m_closed' = [m_closed EXCEPT ![ch] = TRUE]
            /\ m_rooms' = [r \in RoomIds |-> m_rooms[r] \ {ch}]
            /\ wsWrites' = [wsWrites EXCEPT ![ch] = @ - 1]
            /\ UNCHANGED <<m_write_queue, written, stuck>>
    /\ UNCHANGED <<m_cameras, m_req, camVars, pushVars, extVars>>

NextRoom ==
    \/ \E ch \in Channels, target \in Targets : on_http_read(ch, target)
    \/ \E ch \in Channels : on_accept(ch)
    \/ \E ch \in Channels : on_read_error(ch)
    \/ register_room_camera
    \/ \E message \in RoomMsgs : signaling_callback(message)
    \/ \E ch \in Channels, ok \in BOOLEAN : on_write(ch, ok)

\* ------------------------------------------------------------ camera probe
\* what lies outside the probe
probeRest ==
    <<camVars, roomVars, pushVars, sendVars, centerVars, thrVars, queueVars, ringVars>>

\* encoding-name values an RTSP source can announce
Codecs == {"H264", "H265", "VP8"}

\* the fields a caps event on the parser's src pad can carry
CapsEvents ==
    [width : {Absent, Some(1920)}, height : {Absent, Some(1080)},
     framerate : {Absent, Some(<<25, 1>>)}]

\* UCamera::probe_camera_with_reconnect is called
probe_camera_with_reconnect(n) ==
    /\ probePc = "idle"
    /\ attempts' = n
    /\ attempt' = 1
    /\ IF 1 <= n
       THEN /\ probePc' = "sdp"
            /\ tries' = tries + 1
            /\ UNCHANGED probeResult
       ELSE /\ probePc' = "done"
            /\ probeResult' = "throw"
            /\ UNCHANGED tries
    /\ codecSeen' = FALSE
    /\ capsSeen' = FALSE
    /\ UNCHANGED <<codec_name, width, height, framerate_num, framerate_den, ready,
                   sleeps, error_out, probeRest>>

\* UCamera::on_rtsp_pad_added, connected for the whole of a try
on_rtsp_pad_added(media, encoding) ==
    /\ probePc \in {"sdp", "caps"}
    /\ codec_name' = IF media = "video" /\ encoding # Absent THEN encoding[1]
                     ELSE codec_name
    /\ codecSeen' = IF media = "video" /\ encoding # Absent THEN TRUE ELSE codecSeen
    /\ UNCHANGED <<width, height, framerate_num, framerate_den, ready, probePc,
                   attempts, attempt, tries, sleeps, error_out, probeResult, capsSeen,
                   probeRest>>

MoreAttemptsAlways == TRUE

\* camera.cpp:341  if (i < attempts), which with ++i and i <= attempts (331)
\* decides whether another try follows
MoreAttempts == attempt < attempts

\* try_camera_probe returned false with this error text: the loop of
\* probe_camera_with_reconnect (camera.cpp:331-348) sleeps and goes on, or throws
AttemptFailed(error) ==
    /\ error_out' = error
    /\ IF MoreAttempts
       THEN /\ probePc' = "sleep"
            /\ sleeps' = sleeps + 1
            /\ UNCHANGED probeResult
       ELSE /\ probePc' = "done"
            /\ probeResult' = "throw"
            /\ UNCHANGED sleeps
    /\ UNCHANGED <<attempts, attempt, tries>>

\* camera.cpp:204-258: the wait for the codec ends with a bus error, with the
\* deadline, or with a codec name, for which depay and parser are chosen
probe_sdp(outcome, built) ==
    /\ probePc = "sdp"
    /\ \/ /\ outcome = "error" /\ codec_name = ""
          /\ AttemptFailed("bus error")
       \/ /\ outcome = "timeout" /\ codec_name = ""
          /\ AttemptFailed("SDP timeout (codec not detected)")
       \/ /\ outcome = "go" /\ codec_name # ""
          /\ IF codec_name \notin {"H264", "H265"}
             THEN AttemptFailed("Unsupported codec")
             ELSE IF ~built
             THEN AttemptFailed("Failed to create depay/parser")
             ELSE /\ probePc' = "caps"
                  /\ UNCHANGED <<attempts, attempt, tries, sleeps, error_out, probeResult>>
    /\ UNCHANGED <<codec_name, width, height, framerate_num, framerate_den, ready,
                   codecSeen, capsSeen, probeRest>>

\* camera.cpp:162  if (camera_options->width && camera_options->height)
CapsComplete(w, h, num, den) == w # 0 /\ h # 0

\* UCamera::on_parser_event for a caps event; a field the caps lack leaves
\* the member as it was (profile, a string nothing reads, is left out)
on_parser_event(caps) ==
    /\ probePc = "caps"
    /\ LET w == IF caps.width = Absent THEN width ELSE caps.width[1]
           h == IF caps.height = Absent THEN height ELSE caps.height[1]
           num == IF caps.framerate = Absent THEN framerate_num ELSE caps.framerate[1][1]
           den == IF caps.framerate = Absent THEN framerate_den ELSE caps.framerate[1][2]
       IN  /\ width' = w
           /\ height' = h
           /\ framerate_num' = num
           /\ framerate_den' = den
           /\ ready' = IF CapsComplete(w, h, num, den) THEN TRUE ELSE ready
           /\ capsSeen' = IF CapsComplete(w, h, num, den) THEN TRUE ELSE capsSeen
    /\ UNCHANGED <<codec_name, probePc, attempts, attempt, tries, sleeps, error_out,
                   probeResult, codecSeen, probeRest>>

\* camera.cpp:296-324: the wait for ready ends with a bus error, with the
\* deadline, or with ready set
probe_caps(outcome) ==
    /\ probePc = "caps"
    /\ \/ /\ outcome = "error" /\ ~ready
          /\ AttemptFailed("bus error")
       \/ /\ outcome = "timeout" /\ ~ready
          /\ AttemptFailed("CAPS timeout (no resolution)")
       \/ /\ outcome = "go" /\ ready
          /\ probePc' = "done"
          /\ probeResult' = "true"
          /\ UNCHANGED <<attempts, attempt, tries, sleeps, error_out>>
    /\ UNCHANGED <<codec_name, width, height, framerate_num, framerate_den, ready,
                   codecSeen, capsSeen, probeRest>>

\* camera.cpp:341-344, 331: the delay is over, ++i, the next try starts
probe_retry ==
    /\ probePc = "sleep"
    /\ attempt' = attempt + 1
    /\ tries' = tries + 1
    /\ probePc' = "sdp"
    /\ codecSeen' = FALSE
    /\ capsSeen' = FALSE
    /\ UNCHANGED <<codec_name, width, height, framerate_num, framerate_den, ready,
                   attempts, sleeps, error_out, probeResult, probeRest>>

ProbeOutcomes == {"error", "timeout", "go"}

NextProbe ==
    \/ \E n \in 0..MaxAttempts : probe_camera_with_reconnect(n)
    \/ \E media \in {"video", "audio"}, encoding \in {Absent} \cup {Some(c) : c \in Codecs} :
          on_rtsp_pad_added(media, encoding)
    \/ \E outcome \in ProbeOutcomes, built \in BOOLEAN : probe_sdp(outcome, built)
    \/ \E caps \in CapsEvents : on_parser_event(caps)
    \/ \E outcome \in ProbeOutcomes : probe_caps(outcome)
    \/ probe_retry

\* ------------------------------------------------------------ media center
\* what lies outside the media center
centerRest ==
    <<camVars, roomVars, pushVars, sendVars, probeVars, thrVars, queueVars, ringVars>>

Present == {n \in CamNames : center_cameras[n] # Absent}

Pos(n) == CHOOSE k \in DOMAIN CamOrder : CamOrder[k] = n

\* the first camera of the iteration order in a set of cameras
First(S) == CHOOSE n \in S : \A o \in S : Pos(n) <= Pos(o)

\* UMediaCenter::add_camera
add_camera(name) ==
    /\ centerPc = "idle"
    /\ IF center_cameras[name] # Absent
       THEN /\ lastCall' = <<"add_camera", name, "-1">>
            /\ UNCHANGED <<center_cameras, cam_initialized, cam_gst_initialized,
                           cam_running, objects>>
       ELSE /\ objects < MaxObjects
            /\ objects' = objects + 1
            /\ center_cameras' = [center_cameras EXCEPT ![name] = Some(objects + 1)]
            /\ cam_initialized' = [cam_initialized EXCEPT ![name] = FALSE]
            /\ cam_gst_initialized' = [cam_gst_initialized EXCEPT ![name] = FALSE]
            /\ cam_running' = [cam_running EXCEPT ![name] = FALSE]
            /\ lastCall' = <<"add_camera", name, "0">>
    /\ UNCHANGED <<m_camera_initialization, centerPc, camera_nums, centerRest>>

\* UMediaCenter::remove_camera. UCamera::stop joins m_gst_loop_thread before
\* g_main_loop_quit (camera.cpp:95-96), so it does not return for a running
\* camera whose pipeline exists; erase releases the only owner, and ~UCamera
\* then destroys a joinable m_gst_loop_thread, which is std::terminate
remove_camera(name) ==
    /\ centerPc = "idle"
    /\ lastCall' = <<"remove_camera", name, "0">>
    /\ IF center_cameras[name] = Absent
       THEN UNCHANGED <<center_cameras, cam_initialized, cam_gst_initialized, cam_running,
                        centerPc>>
       ELSE /\ cam_running' = [cam_running EXCEPT ![name] = FALSE]
            /\ IF cam_running[name] /\ cam_gst_initialized[name]
               THEN /\ centerPc' = "blocked"
                    /\ UNCHANGED <<center_cameras, cam_initialized, cam_gst_initialized>>
               ELSE /\ center_cameras' = [center_cameras EXCEPT ![name] = Absent]
                    /\ cam_initialized' = [cam_initialized EXCEPT ![name] = FALSE]
                    /\ cam_gst_initialized' = [cam_gst_initialized EXCEPT ![name] = FALSE]
                    /\ centerPc' = IF cam_gst_initialized[name] THEN "terminated"
                                   ELSE "idle"
    /\ UNCHANGED <<m_camera_initialization, camera_nums, objects, centerRest>>

\* UMediaCenter::initialize_cameras up to the test of its while loop
initialize_cameras ==
    /\ centerPc = "idle"
    /\ camera_nums' = Cardinality(Present)
    /\ IF Cardinality(Present) = 0
       THEN /\ lastCall' = <<"initialize_cameras", "", "returned">>
            /\ UNCHANGED centerPc
       ELSE /\ lastCall' = <<"initialize_cameras", "", "running">>
            /\ centerPc' = "pass"
    /\ UNCHANGED <<center_cameras, cam_initialized, cam_gst_initialized, cam_running,
                   m_camera_initialization, objects, centerRest>>

\* results of UCamera::create_gst_pipeline_webrtc when the pipeline does not
\* exist yet: built (true), an element missing (false), no codec or an
\* unsupported one (runtime_error)
CreateOutcomes == {"true", "false", "throw"}

\* one pass of the for loop of initialize_cameras, media_center.cpp:52-69;
\* outcome[n] is what create_gst_pipeline_webrtc does for camera n if its
\* pipeline has to be built
initialize_pass(outcome) ==
    /\ centerPc = "pass"
    /\ LET throwers == {n \in Present : ~cam_gst_initialized[n] /\ outcome[n] = "throw"}
           visited == IF throwers = {} THEN Present
                      ELSE {n \in Present : Pos(n) <= Pos(First(throwers))}
           built == {n \in visited : cam_gst_initialized[n] \/ outcome[n] = "true"}
           cameras_ready == Cardinality(built)
       IN  /\ cam_initialized' = [n \in CamNames |-> cam_initialized[n] \/ n \in visited]
           /\ cam_gst_initialized' = [n \in CamNames |-> n \in built \/ cam_gst_initialized[n]]
           /\ IF throwers # {}
              THEN /\ centerPc' = "thrown"
                   /\ lastCall' = <<"initialize_cameras", "", "thrown">>
                   /\ UNCHANGED m_camera_initialization
              ELSE IF cameras_ready = camera_nums
              THEN /\ m_camera_initialization' = TRUE
                   /\ centerPc' = "idle"
                   /\ lastCall' = <<"initialize_cameras", "", "returned">>
              ELSE /\ centerPc' = "sleep"
                   /\ UNCHANGED <<m_camera_initialization, lastCall>>
    /\ UNCHANGED <<center_cameras, cam_running, camera_nums, objects, centerRest>>

\* media_center.cpp:67: the 1000 ms are over, the while loop goes round
initialize_retry ==
    /\ centerPc = "sleep"
    /\ centerPc' = "pass"
    /\ UNCHANGED <<center_cameras, cam_initialized, cam_gst_initialized, cam_running,
                   m_camera_initialization, camera_nums, objects, lastCall, centerRest>>

\* UMediaCenter::start_cameras; UCamera::start only sets m_running
start_cameras ==
    /\ centerPc = "idle"
    /\ IF ~m_camera_initialization
       THEN /\ lastCall' = <<"start_cameras", "", "refused">>
            /\ UNCHANGED cam_running
       ELSE /\ lastCall' = <<"start_cameras", "", "done">>
            /\ cam_running' = [n \in CamNames |-> cam_running[n] \/ n \in Present]
    /\ UNCHANGED <<center_cameras, cam_initialized, cam_gst_initialized,
                   m_camera_initialization, centerPc, camera_nums, objects, centerRest>>

\* UMediaCenter::stop_cameras: UCamera::stop for each camera in turn; the
\* first running camera whose pipeline exists keeps it in its join
stop_cameras ==
    /\ centerPc = "idle"
    /\ IF ~m_camera_initialization
       THEN /\ lastCall' = <<"stop_cameras", "", "refused">>
            /\ UNCHANGED <<cam_running, centerPc>>
       ELSE LET joining == {n \in Present : cam_running[n] /\ cam_gst_initialized[n]}
                visited == IF joining = {} THEN Present
                           ELSE {n \in Present : Pos(n) <= Pos(First(joining))}
            IN  /\ cam_running' = [n \in CamNames |-> cam_running[n] /\ n \notin visited]
                /\ centerPc' = IF joining = {} THEN "idle" ELSE "blocked"
                /\ lastCall' = <<"stop_cameras", "",
                                 IF joining = {} THEN "done" ELSE "blocked">>
    /\ UNCHANGED <<center_cameras, cam_initialized, cam_gst_initialized,
                   m_camera_initialization, camera_nums, objects, centerRest>>

NextCenter ==
    \/ \E name \in CamNames : add_camera(name)
    \/ \E name \in CamNames : remove_camera(name)
    \/ initialize_cameras
    \/ \E outcome \in [CamNames -> CreateOutcomes] : initialize_pass(outcome)
    \/ initialize_retry
    \/ start_cameras
    \/ stop_cameras

\* ------------------------------------- threads in on_signaling_message
\* The handler of one message taken statement by statement, so that two
\* threads inside it interleave.
thrRest == <<roomVars, pushVars, sendVars, probeVars, centerVars, queueVars, ringVars>>

\* the camera state no statement of these handlers writes
thrKeeps == <<m_gst_initialized, chanVars, data>>

ThreadMsgs == {Connection(c) : c \in ClientIds} \cup {Other(c) : c \in ClientIds}

\* on_signaling_message is entered with a message that parses
thr_receive(t, msg) ==
    /\ alive
    /\ thrPc[t] = "idle"
    /\ handled[t] < MaxHandled
    /\ thrPc' = [thrPc EXCEPT ![t] = "find"]
    /\ thrMsg' = [thrMsg EXCEPT ![t] = Some(msg)]
    /\ outbound' = <<>>
    /\ UNCHANGED <<alive, sessVars, thrKeeps, handled, m_session_mutex, mutating,
                   racedRead, established, thrRest>>

Finished(t) ==
    /\ thrPc' = [thrPc EXCEPT ![t] = "idle"]
    /\ handled' = [handled EXCEPT ![t] = @ + 1]

\* What m_opened_sessions.find can yield while another thread is inside the
\* map's operator[]: the two threads race on the tree nodes
RacyFinds == {"found", "absent", "fault"}

\* camera.cpp:697, 833: find is called without m_session_mutex, so it runs
\* whatever the other thread is doing
UnlockedFind(t) == mutating

\* camera.cpp:833-849 for a connection request, 697-701 and 808-811 for a
\* message of another type: the lookup and what follows it directly
thr_find(t) ==
    /\ alive
    /\ thrPc[t] = "find"
    /\ LET msg == thrMsg[t][1]
           client_id == msg.client_id[1]
       IN  \E r \in RacyFinds :
           /\ ~UnlockedFind(t) =>
                 r = (IF client_id \in m_opened_sessions THEN "found" ELSE "absent")
           /\ racedRead' = (racedRead \/ UnlockedFind(t))
           /\ alive' = (r # "fault")
           /\ IF r = "fault"
              THEN /\ outbound' = <<>>
                   /\ UNCHANGED <<thrPc, handled>>
              ELSE IF msg.type[1] # "connection"
              THEN /\ outbound' = <<>>
                   /\ Finished(t)
              ELSE IF r = "found"
              THEN /\ outbound' = <<JsonNames(CameraName, client_id, FALSE,
                                      SIG_TYPE_CONNECT,
                                      "Session with this client has already started!")>>
                   /\ Finished(t)
              ELSE IF TeeMissing
              THEN /\ outbound' = <<JsonNames(CameraName, client_id, FALSE,
                                      SIG_TYPE_CONNECT, "Internal error with tee!")>>
                   /\ Finished(t)
              ELSE /\ outbound' = <<>>
                   /\ thrPc' = [thrPc EXCEPT ![t] = "build"]
                   /\ UNCHANGED handled
    /\ UNCHANGED <<sessVars, thrKeeps, thrMsg, m_session_mutex, mutating,
                   established, thrRest>>

\* camera.cpp:851-916: the session's elements are made, added and linked
thr_build(t) ==
    /\ alive
    /\ thrPc[t] = "build"
    /\ LET client_id == thrMsg[t][1].client_id[1]
       IN  \E o \in OpenOutcomes :
           /\ binBranches' = [binBranches EXCEPT
                                  ![client_id] = @ + (IF InBin(o) THEN 1 ELSE 0)]
           /\ teePads' = teePads + (IF PadRequested(o) THEN 1 ELSE 0)
           /\ IF o # "ok"
              THEN /\ outbound' = <<JsonSession(Some(FWebRtcSession(client_id)), FALSE,
                                      SIG_TYPE_CONNECT, "Internal error!")>>
                   /\ Finished(t)
              ELSE /\ outbound' = <<>>
                   /\ thrPc' = [thrPc EXCEPT ![t] = "lock"]
                   /\ UNCHANGED handled
    /\ UNCHANGED <<alive, m_opened_sessions, m_has_sessions, pipelineState, remoteDesc,
                   localDesc, negotiated, iceAgent, iceConnected, thrKeeps, thrMsg,
                   m_session_mutex, mutating, racedRead, established, thrRest>>

\* camera.cpp:928-929: the lock is taken and the assignment to the map begins
thr_lock(t) ==
    /\ alive
    /\ thrPc[t] = "lock"
    /\ m_session_mutex = Absent
    /\ m_session_mutex' = Some(t)
    /\ mutating' = TRUE
    /\ thrPc' = [thrPc EXCEPT ![t] = "insert"]
    /\ outbound' = <<>>
    /\ UNCHANGED <<alive, sessVars, thrKeeps, thrMsg, handled, racedRead, established,
                   thrRest>>

\* camera.cpp:929-935: the assignment ends (a session already stored under
\* the key is replaced), the pipeline is set PLAYING for the first session,
\* the flag is set, the lock is released
thr_insert(t) ==
    /\ alive
    /\ thrPc[t] = "insert"
    /\ LET client_id == thrMsg[t][1].client_id[1]
       IN  /\ m_opened_sessions' = m_opened_sessions \cup {client_id}
           /\ remoteDesc' = FreshSession(remoteDesc, client_id, FALSE)
           /\ localDesc' = FreshSession(localDesc, client_id, FALSE)
           /\ negotiated' = FreshSession(negotiated, client_id, FALSE)
           /\ iceAgent' = FreshSession(iceAgent, client_id, {})
           /\ iceConnected' = FreshSession(iceConnected, client_id, FALSE)
    /\ IF ~m_has_sessions
       THEN pipelineState' \in SetStateResults("PLAYING")
       ELSE UNCHANGED pipelineState
    /\ m_has_sessions' = TRUE
    /\ mutating' = FALSE
    /\ m_session_mutex' = Absent
    /\ thrPc' = [thrPc EXCEPT ![t] = "reply"]
    /\ outbound' = <<>>
    /\ UNCHANGED <<alive, binBranches, teePads, thrKeeps, thrMsg, handled, racedRead,
                   established, thrRest>>

\* camera.cpp:936-937: the success reply
thr_reply(t) ==
    /\ alive
    /\ thrPc[t] = "reply"
    /\ LET client_id == thrMsg[t][1].client_id[1]
       IN  /\ outbound' = <<JsonSession(Some(FWebRtcSession(client_id)), TRUE,
                                        SIG_TYPE_CONNECT, "established")>>
           /\ established' = [established EXCEPT ![client_id] = @ + 1]
    /\ Finished(t)
    /\ UNCHANGED <<alive, sessVars, thrKeeps, thrMsg, m_session_mutex, mutating,
                   racedRead, thrRest>>

NextThreads ==
    \/ create_gst_pipeline_webrtc
    \/ \E t \in Threads, msg \in ThreadMsgs : thr_receive(t, msg)
    \/ \E t \in Threads : thr_find(t)
    \/ \E t \in Threads : thr_build(t)
    \/ \E t \in Threads : thr_lock(t)
    \/ \E t \in Threads : thr_insert(t)
    \/ \E t \in Threads : thr_reply(t)

\* -------------------------------------------------------------- USafeQueue
queueRest ==
    <<camVars, roomVars, pushVars, sendVars, probeVars, centerVars, thrVars, ringVars>>

\* USafeQueue::USafeQueue(max_size)
USafeQueue(max_size) ==
    /\ m_max_size = Absent
    /\ m_max_size' = Some(max_size)
    /\ UNCHANGED <<m_queue, queueState, queuePushes, queueRet, queueOldest, queueRest>>

\* std::queue::pop() on an empty queue (std::deque::pop_front, undefined):
\* the call changes nothing, or leaves the container's bookkeeping broken,
\* or the process is ended
EmptyPopOutcomes == {"no_effect", "corrupt", "dead"}

\* iwebsocket_client.h:317  if (m_queue.size() >= m_max_size)
QueueFull == Len(m_queue) >= m_max_size[1]

\* USafeQueue::push
queue_push ==
    /\ m_max_size # Absent
    /\ queueState = "ok"
    /\ queuePushes < MaxQueuePushes
    /\ queuePushes' = queuePushes + 1
    /\ IF ~QueueFull
       THEN /\ m_queue' = Append(m_queue, queuePushes + 1)
            /\ UNCHANGED queueState
       ELSE IF m_queue # <<>>
       THEN /\ m_queue' = Append(Tail(m_queue), queuePushes + 1)
            /\ UNCHANGED queueState
       ELSE \E o \in EmptyPopOutcomes :
            /\ queueState' = IF o = "no_effect" THEN "ok" ELSE o
            /\ m_queue' = IF o = "no_effect" THEN <<queuePushes + 1>> ELSE m_queue
    /\ UNCHANGED <<m_max_size, queueRet, queueOldest, queueRest>>

\* USafeQueue::wait_and_pop: the wait ends when the queue is not empty
wait_and_pop ==
    /\ m_max_size # Absent
    /\ queueState = "ok"
    /\ m_queue # <<>>
    /\ queueRet' = Some(Head(m_queue))
    /\ queueOldest' = Some(m_queue[1])
    /\ m_queue' = Tail(m_queue)
    /\ UNCHANGED <<m_max_size, queueState, queuePushes, queueRest>>

NextQueue ==
    \/ \E max_size \in 0..MaxQueueSize : USafeQueue(max_size)
    \/ queue_push
    \/ wait_and_pop

\* ------------------------------------------------------------- URingBuffer
ringRest ==
    <<camVars, roomVars, pushVars, sendVars, probeVars, centerVars, thrVars, queueVars>>

\* URingBuffer::URingBuffer(capacity): a vector of capacity empty pointers
URingBuffer(capacity) ==
    /\ m_capacity = 0
    /\ m_capacity' = capacity
    /\ m_buffer' = [k \in 0..(capacity - 1) |-> 0]
    /\ UNCHANGED <<m_head, m_tail, m_full, fifo, ringPushes, ringOp, ringRet, fifoRet,
                   ringRest>>

\* URingBuffer::empty_locked
empty_locked == ~m_full /\ m_head = m_tail

\* URingBuffer::size
RingSize ==
    IF m_full THEN m_capacity
    ELSE IF m_head >= m_tail THEN m_head - m_tail
    ELSE m_capacity + m_head - m_tail

\* URingBuffer::push; the FIFO drops its oldest item when it holds capacity items
ring_push ==
    /\ m_capacity > 0
    /\ ringPushes < MaxRingPushes
    /\ ringPushes' = ringPushes + 1
    /\ m_buffer' = [m_buffer EXCEPT ![m_head] = ringPushes + 1]
    /\ m_head' = (m_head + 1) % m_capacity
    /\ m_tail' = IF m_full THEN (m_tail + 1) % m_capacity ELSE m_tail
    /\ m_full' = (m_head' = m_tail')
    /\ fifo' = Append(IF Len(fifo) = m_capacity THEN Tail(fifo) ELSE fifo, ringPushes + 1)
    /\ ringOp' = "push"
    /\ ringRet' = Absent
    /\ fifoRet' = Absent
    /\ UNCHANGED <<m_capacity, ringRest>>

\* URingBuffer::pop; the item is moved out, which leaves an empty pointer
ring_pop ==
    /\ m_capacity > 0
    /\ ringOp' = "pop"
    /\ IF empty_locked
       THEN /\ ringRet' = Absent
            /\ UNCHANGED <<m_buffer, m_tail, m_full>>
       ELSE /\ ringRet' = Some(m_buffer[m_tail])
            /\ m_buffer' = [m_buffer EXCEPT ![m_tail] = 0]
            /\ m_tail' = (m_tail + 1) % m_capacity
            /\ m_full' = FALSE
    /\ IF fifo = <<>>
       THEN /\ fifoRet' = Absent
            /\ UNCHANGED fifo
       ELSE /\ fifoRet' = Some(Head(fifo))
            /\ fifo' = Tail(fifo)
    /\ UNCHANGED <<m_capacity, m_head, ringPushes, ringRest>>

PeekAtHead == m_head

\* iwebsocket_client.h:260  size_t last = (m_head + m_capacity - 1) % m_capacity
PeekIndex == (m_head + m_capacity - 1) % m_capacity

\* URingBuffer::peek
ring_peek ==
    /\ m_capacity > 0
    /\ ringOp' = "peek"
    /\ ringRet' = IF empty_locked THEN Absent ELSE Some(m_buffer[PeekIndex])
    /\ fifoRet' = IF fifo = <<>> THEN Absent ELSE Some(fifo[Len(fifo)])
    /\ UNCHANGED <<m_capacity, m_buffer, m_head, m_tail, m_full, fifo, ringPushes,
                   ringRest>>

NextRing ==
    \/ \E capacity \in 1..MaxCapacity : URingBuffer(capacity)
    \/ ring_push
    \/ ring_pop
    \/ ring_peek

NextCamera ==
    \/ create_gst_pipeline_webrtc
    \/ Arrive
    \/ do_read
    \/ do_read_failed
    \/ \E ok \in BOOLEAN : connect_attempt(ok)
    \/ reconnect_timer
    \/ \E c \in ClientIds : close_session(c)
    \/ \E c \in ClientIds : on_negotiation_needed(c)
    \/ \E c \in ClientIds : on_ice_candidate(c)
    \/ \E c \in ClientIds : on_ice_connection_state(c)

vars == <<camVars, roomVars, pushVars, extVars>>

Init == InitCamera /\ InitRoom /\ InitPush /\ InitExt

\* the camera and its signaling channel
Spec == Init /\ [][NextCamera]_vars

\* the websocket client alone: connecting, reading, writing, reconnecting
NextChannel ==
    \/ \E ok \in BOOLEAN : connect_attempt(ok)
    \/ reconnect_timer
    \/ Arrive
    \/ do_read
    \/ do_read_failed
    \/ \E message \in SendTexts : send(message)
    \/ \E ok \in BOOLEAN : write_done(ok)

\* Completion handlers and the reconnect timer run once they are due: the
\* io_context thread does nothing else.
SpecChannel ==
    /\ Init /\ [][NextChannel]_vars
    /\ WF_vars(reconnect_timer)
    /\ WF_vars(\E ok \in BOOLEAN : connect_attempt(ok))
    /\ WF_vars(\E ok \in BOOLEAN : write_done(ok))

\* the room server between a camera's callback and the viewers' channels
SpecRoom == Init /\ [][NextRoom]_vars

\* the write paths of both ends of the signaling channels: the sessions of
\* the camera's room on the server, and the camera's client
NextWrite ==
    \/ register_room_camera
    \/ \E ch \in Channels : on_http_read(ch, <<"/", CameraName>>)
    \/ \E ch \in Channels : on_accept(ch)
    \/ \E message \in RoomMsgs : signaling_callback(message)
    \/ \E ch \in Channels, ok \in BOOLEAN : on_write(ch, ok)
    \/ \E ok \in BOOLEAN : connect_attempt(ok)
    \/ \E message \in SendTexts : send(message)
    \/ \E ok \in BOOLEAN : write_done(ok)

SpecWrite == Init /\ [][NextWrite]_vars

\* the thread feeding frames to appsrc
SpecPush == Init /\ [][NextPush]_vars

\* the probe of one camera's source
SpecProbe == Init /\ [][NextProbe]_vars

\* the camera manager, called from the main thread
SpecCenter == Init /\ [][NextCenter]_vars

\* one USafeQueue
SpecQueue == Init /\ [][NextQueue]_vars

\* one URingBuffer next to the bounded FIFO it is compared with
SpecRing == Init /\ [][NextRing]_vars

\* two threads handling signaling messages of one camera
SpecThreads == Init /\ [][NextThreads]_vars

\* The frame push loop and stop() on a camera whose pipeline may exist
NextStop ==
    \/ NextPush
    \/ create_gst_pipeline_webrtc

\* Threads that can take a step eventually take it: the push worker at its
\* loop head or with a frame to pop, and stop() once its join can return.
\* Producing frames, opening sessions and waking without a notification are
\* not owed to anyone.
SpecStop ==
    /\ Init /\ [][NextStop]_vars
    /\ WF_vars(push_wait)
    /\ WF_vars(stop_return)
    /\ WF_vars(\E bufferOk \in BOOLEAN, outs \in [1..2 -> PlaneOutcomes] :
                    push_iteration(bufferOk, outs))

\* --------------------------------------------------------------- claims
Sent == {outbound[i] : i \in 1..Len(outbound)}

\* the step just taken passed an inbound frame of this type for client c to
\* on_signaling_message
Handled(d, c, t) ==
    /\ d # Absent
    /\ d[1].json
    /\ d[1].client_id = Some(c)
    /\ d[1].type = Some(t)

\* a string contains ".local" (stated apart from the code's find)
ContainsDotLocal(str) ==
    \E i \in 0..(Len(str) - Len(DotLocal)) :
        SubSeq(str, i + 1, i + Len(DotLocal)) = DotLocal

\* C1: a `connection` for a client that already has a session yields exactly
\* one outbound `connection` reply with ret=fault for that client and leaves
\* the session table, every branch and the pipeline state unchanged.
C1_DuplicateConnectionFault ==
    [][\A c \in ClientIds :
         (Handled(data', c, "connection") /\ c \in m_opened_sessions)
         => /\ Len(outbound') = 1
            /\ outbound'[1].type = SIG_TYPE_CONNECT
            /\ outbound'[1].ret = Some(SIG_RET_FAULT)
            /\ outbound'[1].client_id = Some(c)
            /\ UNCHANGED sessVars]_vars

C1_Witness ==
    \E c \in ClientIds :
        /\ Handled(data, c, "connection")
        /\ c \in m_opened_sessions
        /\ outbound = <<JsonNames(CameraName, c, FALSE, SIG_TYPE_CONNECT,
                                  "Session with this client has already started!")>>

\* C2: a client's branch (queue + webrtcbin) is in the pipeline if and only
\* if the client has an entry in the session table.
C2_BranchIffSession ==
    \A c \in ClientIds : (binBranches[c] > 0) <=> (c \in m_opened_sessions)

\* C3: once the pipeline exists it is PLAYING if and only if the session
\* table is non-empty, and READY when the table is empty.
C3_PlayingIffSessions ==
    m_gst_initialized =>
        /\ (pipelineState = "PLAYING") <=> (m_opened_sessions # {})
        /\ (m_opened_sessions = {}) => (pipelineState = "READY")

\* C4: every descriptor handed to the camera is closed exactly once on every
\* path: none is closed twice, and one that no frame, buffer or encoder owns
\* any more has been closed; a non-OK flow return is no exception.
C4_ClosedExactlyOnce ==
    \A fd \in DOMAIN fdTable :
        /\ fdTable[fd].closes <= 1
        /\ (fdTable[fd].owner = "none") <=> (fdTable[fd].closes = 1)

C6_SdpNotEmpty ==
    \A m \in Sent :
        m.type \in {"offer", "answer"} => (m.sdp # Absent /\ m.sdp[1] # "")

C6_Witness ==
    \E m \in Sent : m.type = "offer"

\* C7: every outbound message carries a client_id, and it is the id of a
\* real client, never a placeholder.
C7_ClientIdOfAClient ==
    \A m \in Sent : m.client_id # Absent /\ m.client_id[1] \in ClientIds

\* C8: a message produced for client c is written only to c's own channel;
\* no other channel of the room receives it.
C8_OnlyToOwnChannel ==
    \A ch \in Channels :
        /\ written[ch] \subseteq {Some(Viewer(ch))}
        /\ \A i \in 1..Len(m_write_queue[ch]) :
              m_write_queue[ch][i].client_id = Some(Viewer(ch))

\* C9: an inbound `ice` for an open session whose remote description is not
\* yet set is not handed to the ICE agent when it arrives.
C9_EarlyIceNotApplied ==
    [][\A c \in ClientIds :
         (Handled(data', c, "ice") /\ c \in m_opened_sessions /\ ~remoteDesc[c])
         => iceAgent'[c] = iceAgent[c]]_vars

\* C10: an inbound `ice` whose candidate contains ".local" is discarded:
\* add-ice-candidate is not invoked, the session table and ICE state are
\* unchanged and nothing is sent.
C10_MdnsDiscarded ==
    [][\A c \in ClientIds :
         (Handled(data', c, "ice") /\ ContainsDotLocal(CandidateOf(data'[1])))
         => /\ UNCHANGED sessVars
            /\ outbound' = <<>>]_vars

C10_Witness ==
    \E c \in ClientIds :
        /\ c \in m_opened_sessions
        /\ Handled(data, c, "ice")
        /\ ContainsDotLocal(CandidateOf(data[1]))
        /\ iceAgent[c] # {}

\* C37: an inbound `ice` for an open session whose `candidate` is absent or
\* not a string is rejected: add-ice-candidate is not invoked and the session
\* is unchanged.
C37_IceWithoutCandidateRejected ==
    [][\A c \in ClientIds :
         (Handled(data', c, "ice") /\ data'[1].candidate = Absent
            /\ c \in m_opened_sessions)
         => UNCHANGED sessVars]_vars

\* C11: when the signaling channel drops, or an explicit `close` for client
\* c is received, the session of c is removed from the table and its branch
\* destroyed (so that a re-sent `connection` opens a fresh session).
C11_DropOrCloseRemovesSession ==
    [][/\ (wsState = "reading" /\ wsState' = "waiting")
            => /\ m_opened_sessions' = {}
               /\ \A c \in ClientIds : binBranches'[c] = 0
       /\ \A c \in ClientIds :
            (Handled(data', c, "close") /\ c \in m_opened_sessions)
            => /\ c \notin m_opened_sessions'
               /\ binBranches'[c] = 0]_vars

\* C12: a `connection` whose branch attach fails at any step leaves in the
\* pipeline no element and on the tee no pad of that attempt, no session
\* for the client, the pipeline state unchanged, and one fault reply sent.
C12_FailedOpenTornDown ==
    [][\A c \in ClientIds :
         (/\ Handled(data', c, "connection")
          /\ m_gst_initialized
          /\ c \notin m_opened_sessions
          /\ c \notin m_opened_sessions')
         => /\ binBranches' = binBranches
            /\ teePads' = teePads
            /\ pipelineState' = pipelineState
            /\ m_opened_sessions' = m_opened_sessions
            /\ Len(outbound') = 1
            /\ outbound'[1].type = SIG_TYPE_CONNECT
            /\ outbound'[1].ret = Some(SIG_RET_FAULT)
            /\ outbound'[1].client_id = Some(c)]_vars

\* C13: the number of requested src pads on the tee equals the number of
\* sessions in the table.
C13_TeePadsEqualSessions ==
    teePads = Cardinality(m_opened_sessions)

\* The handlers run whenever their event is ready: the io_context thread runs
\* a completed read, and webrtcbin emits on-negotiation-needed for a branch
\* that was attached.
SpecFair ==
    /\ Spec
    /\ WF_vars(do_read)
    /\ \A c \in ClientIds : WF_vars(on_negotiation_needed(c))

\* C14: for an open session of client c, an inbound `offer` carrying a string
\* sdp eventually results in an outbound `answer` for c.
C14_OfferAnswered ==
    \A c \in ClientIds :
        (Handled(data, c, "offer") /\ data[1].sdp # Absent /\ c \in m_opened_sessions)
        ~> (\E m \in Sent : m.type = "answer" /\ m.client_id = Some(c))

\* C15: when the ICE connection of a session whose offer was sent and whose
\* answer was set as remote description becomes connected, the session goes
\* from NEGOTIATING to CONNECTED and stays in the session table.
C15_ConnectedOnIce ==
    [][\A c \in ClientIds :
         (/\ negotiated[c] /\ localDesc[c] /\ remoteDesc[c]
          /\ ~iceConnected[c] /\ iceConnected'[c])
         => /\ SessionState(c) = "NEGOTIATING"
            /\ SessionState(c)' = "CONNECTED"
            /\ c \in m_opened_sessions']_vars

\* C16: the `connection` success reply for a client is placed on the channel
\* before the `offer` for that client, under every interleaving of the
\* signaling thread with the negotiation-needed callback.
C16_ReplyBeforeOffer ==
    \A i, j \in 1..Len(outbound) :
        (/\ outbound[i].type = "offer"
         /\ outbound[j].type = SIG_TYPE_CONNECT
         /\ outbound[j].ret = Some(SIG_RET_SUCCESS)
         /\ outbound[j].client_id = outbound[i].client_id)
        => j < i

\* C17: an inbound text that is not valid JSON, is not an object, or lacks a
\* string client_id or type is discarded: the session table, the sessions
\* and the pipeline state are unchanged, nothing is sent, and the read loop
\* goes on to the next message.
C17_UnusableDiscarded ==
    [][(handledSeq' # handledSeq /\ data' # Absent /\ Unusable(data'[1]))
       => /\ UNCHANGED sessVars
          /\ outbound' = <<>>
          /\ alive' /\ wsState' = "reading"]_vars

C17_Witness ==
    /\ data # Absent /\ Unusable(data[1])
    /\ data[1].client_id # Absent /\ data[1].client_id[1] \in m_opened_sessions

\* C18: a `connection` request to a camera whose tee does not exist is
\* answered with one `connection` fault reply; no session and no branch is
\* created and m_has_sessions stays false.
C18_NoTeeFault ==
    [][\A c \in ClientIds :
         (Handled(data', c, "connection") /\ ~m_gst_initialized)
         => /\ Len(outbound') = 1
            /\ outbound'[1].type = SIG_TYPE_CONNECT
            /\ outbound'[1].ret = Some(SIG_RET_FAULT)
            /\ outbound'[1].client_id = Some(c)
            /\ m_opened_sessions' = {}
            /\ \A d \in ClientIds : binBranches'[d] = 0
            /\ teePads' = 0
            /\ ~m_has_sessions']_vars

C18_Witness ==
    /\ \E c \in ClientIds : Handled(data, c, "connection")
    /\ ~m_gst_initialized
    /\ Len(outbound) = 1
    /\ outbound[1].description = "Internal error with tee!"

\* C19: a frame queued while no session is attached is never handed to
\* appsrc, not even after a session attaches: the pass of the push loop that
\* pops it gives the encoder nothing.
C19_IdleFrameNotDelivered ==
    [][(/\ pushPc = "pop" /\ pushPc' = "wait"
        /\ m_frames_buffer # <<>> /\ Head(m_frames_buffer).no_session)
       => inEncoder' = inEncoder]_vars

\* C20: after stop() is called on a running camera, eventually stop() has
\* returned, the main loop thread has left g_main_loop_run, and the push
\* worker has exited (unless the camera was started again).
C20_StopTerminates ==
    (stopPc = "join")
    ~> (/\ stopPc = "none"
        /\ ~LoopRunning
        /\ pushPc = "done" \/ m_running)

\* C21: after any transport error on the camera's channel (a failed resolve,
\* connect, handshake, read or write) a reconnect is scheduled or already
\* under way.
C21_ErrorSchedulesReconnect ==
    [][(\/ wsState = "reading" /\ wsState' # "reading"
        \/ wsState = "connecting" /\ wsState' # "reading" /\ wsState' # wsState
        \/ lastWrite' = "failed" /\ asyncWrites' < asyncWrites)
       => wsState' \in {"waiting", "connecting"}]_vars

\* C22: on each signaling channel, the camera's client and every session of
\* the server alike, at most one asynchronous write is in flight at any
\* time, also after a write error.
C22_OneWriteInFlight ==
    /\ asyncWrites <= 1
    /\ \A ch \in Channels : wsWrites[ch] <= 1

C22_Witness ==
    /\ lastWrite = "failed"
    /\ asyncWrites = 1 /\ Len(m_send_queue) = 2
    /\ \E ch \in Channels : wsWrites[ch] = 1 /\ Len(m_write_queue[ch]) = 2
    /\ \E ch \in Channels : m_closed[ch] /\ m_write_queue[ch] # <<>>

\* C23: a transport error on the camera's channel and every reconnect step
\* after it (timer, attempt, failed or successful) leave the session table,
\* every session, m_has_sessions and the pipeline state as they were.
C23_ReconnectKeepsSessions ==
    [][wsState' # wsState => UNCHANGED sessVars]_vars

C23_Witness ==
    /\ wsState = "connecting"
    /\ m_opened_sessions # {}
    /\ m_has_sessions
    /\ pipelineState = "PLAYING"

\* C24: a channel whose request path is /<name> is in room <name>, and one
\* whose path is empty (target empty or just "/") is in room "default".
C24_RoomOfPath ==
    \A ch \in Channels, r \in RoomIds :
        ch \in m_rooms[r]
        => LET target == m_req[ch][1]
           IN  /\ target \in {<<>>, <<"/">>} => r = "default"
               /\ (Len(target) = 2 /\ target[1] = "/") => r = target[2]

\* C25: ready is true only when codec, width, height and framerate are all
\* known: codec name non-empty, width and height non-zero, framerate
\* numerator and denominator taken from the caps event.
C25_ReadyMeansAllKnown ==
    ready => /\ codec_name # ""
             /\ width # 0 /\ height # 0
             /\ framerate_num # 0 /\ framerate_den # 0

\* C26: probe_camera_with_reconnect(N, T, D) makes at most N tries; once it
\* has returned success no further try starts; it has slept D exactly once
\* between two consecutive tries and never after the last; when it ends
\* without success all N tries were made and it ends with the
\* source-unreachable error.
C26_AtMostNAttempts ==
    /\ [](/\ tries <= attempts
          /\ probeResult = "true" => probePc = "done"
          /\ probePc = "done" => probeResult \in {"true", "throw"}
          /\ probeResult = "throw" => tries = attempts
          /\ sleeps = IF probePc = "sleep" THEN tries
                      ELSE IF tries = 0 THEN 0 ELSE tries - 1)
    /\ [][probePc = "done" => UNCHANGED <<tries, sleeps, probeResult>>]_vars

C26_Witness ==
    /\ probePc = "done" /\ probeResult = "throw"
    /\ attempts >= 2 /\ tries = attempts /\ sleeps = tries - 1

\* C27: a codec other than H.264 / H.265 ends the probe at once with
\* UnsupportedCodec: no further try, no timeout, no source-unreachable error.
C27_UnsupportedCodecIsFatal ==
    [][(probePc = "sdp" /\ probePc' # "sdp" /\ codec_name \notin {"", "H264", "H265"})
       => probePc' = "done" /\ probeResult' \notin {"true", "throw"}]_vars

\* C38: a try of the probe returns true only if both the codec description
\* and the caps event that sets ready were received during that try,
\* whatever codec name or ready flag earlier failed tries left behind.
C38_SuccessFromOwnAttempt ==
    probeResult = "true" => codecSeen /\ capsSeen

\* C39: close_session(c) for an existing session does not touch the session
\* object once it is erased: the camera goes on running, the closing
\* notification carries the client_id and camera name of the closed session,
\* and the sessions of all other clients are untouched.
C39_CloseReadsNoErasedSession ==
    [][\A c \in ClientIds :
         (close_session(c) /\ c \in m_opened_sessions)
         => /\ alive'
            /\ outbound' = <<JsonSession(Some(FWebRtcSession(c)), FALSE,
                               SIG_TYPE_CONNECT, "closed")>>
            /\ \A d \in ClientIds \ {c} :
                  /\ d \in m_opened_sessions' <=> d \in m_opened_sessions
                  /\ binBranches'[d] = binBranches[d]
                  /\ remoteDesc'[d] = remoteDesc[d]
                  /\ iceAgent'[d] = iceAgent[d]]_vars

\* C28: the manager holds at most one camera per name: add_camera with a
\* name already present returns -1 and changes nothing, with a new name it
\* adds the camera; remove_camera stops and erases the camera if present and
\* returns, and does nothing if absent.
C28_OneCameraPerName ==
    [][\A name \in CamNames :
         /\ (add_camera(name) /\ center_cameras[name] # Absent)
                => /\ lastCall'[3] = "-1"
                   /\ UNCHANGED <<center_cameras, cam_initialized, cam_gst_initialized,
                                  cam_running, objects>>
         /\ (add_camera(name) /\ center_cameras[name] = Absent)
                => lastCall'[3] = "0" /\ center_cameras'[name] # Absent
         /\ (remove_camera(name) /\ center_cameras[name] # Absent)
                => /\ center_cameras'[name] = Absent
                   /\ ~cam_running'[name]
                   /\ centerPc' = "idle"
         /\ (remove_camera(name) /\ center_cameras[name] = Absent)
                => UNCHANGED <<center_cameras, cam_initialized, cam_gst_initialized,
                               cam_running, centerPc>>]_vars

\* C29: whenever initialize_cameras has returned, the manager is marked
\* initialized (start_cameras and stop_cameras are no longer refused) and
\* every camera reported ready in its last pass; a failing pass is followed
\* by the delay and another pass, never by an exit.
C29_InitializeMarksInitialized ==
    /\ [](lastCall = <<"initialize_cameras", "", "returned">>
            => /\ m_camera_initialization
               /\ \A n \in CamNames : center_cameras[n] # Absent
                                         => cam_initialized[n] /\ cam_gst_initialized[n])
    /\ [][centerPc = "pass" => centerPc' \in {"pass", "sleep", "idle"}]_vars

\* C30: after start_cameras (not refused) every camera is running; after
\* stop_cameras (not refused) the call has returned and no camera is running.
C30_StartStopPropagate ==
    [][/\ (start_cameras /\ m_camera_initialization)
            => \A n \in CamNames : center_cameras[n] # Absent => cam_running'[n]
       /\ (stop_cameras /\ m_camera_initialization)
            => /\ centerPc' = "idle"
               /\ \A n \in CamNames : ~cam_running'[n]]_vars

\* C31: the messages passed to UWebSocketClient::send are written in the
\* order of the send calls, each at most once: every completed write is of
\* a later call than the write completed before it, and of a call made.
C31_WritesInSendOrder ==
    [][lastWritten' # lastWritten
         => lastWritten < lastWritten' /\ lastWritten' <= sendCalls]_vars

C31_Witness ==
    /\ lastWritten = 3
    /\ lastWrite = "ok"

\* C32: every read and every mutation of the session table is made under
\* the session mutex: no lookup runs while another thread is inserting, and
\* connection requests for one new client_id yield exactly one session and
\* one success reply (every other request gets ret=fault).
C32_TableUnderMutex ==
    /\ ~racedRead
    /\ \A c \in ClientIds : established[c] <= 1

\* C33: a buffer handed to the encoder carries the PTS of its frame, and the
\* buffers reach the encoder in non-decreasing PTS order: a frame with a PTS
\* lower than that of the last buffer delivered is dropped, not pushed.
C33_PtsNonDecreasing ==
    [][lastPts' >= lastPts]_vars

\* C34: on a viewer channel that is not closed, the write-completion handler
\* always returns and a write is in flight whenever messages are queued, so
\* every message accepted by send_text gets written, however many are
\* queued.
C34_QueuedIsBeingWritten ==
    \A ch \in Channels :
        ~m_closed[ch] => /\ ~stuck[ch]
                         /\ m_write_queue[ch] # <<>> => wsWrites[ch] = 1

\* C35: m_has_sessions is true exactly when m_opened_sessions is non-empty,
\* after any sequence of open_new_session and close_session calls, failed
\* ones included.
C35_FlagIffSessions ==
    m_has_sessions <=> m_opened_sessions # {}

C35_Witness ==
    /\ ~m_has_sessions /\ m_opened_sessions = {}
    /\ \E c \in ClientIds : binBranches[c] > 0
    /\ Len(outbound) = 1 /\ outbound[1].description = "closed"

\* C36: a USafeQueue built with any max_size, 0 included, never holds more
\* than max_size items and never pops from an empty queue; a push on a full
\* queue discards exactly the oldest item; wait_and_pop returns the oldest
\* item held.
C36_QueueBounded ==
    /\ [](m_max_size # Absent
            => /\ queueState = "ok"
               /\ Len(m_queue) <= m_max_size[1]
               /\ queueRet = queueOldest)
    /\ [][(queuePushes' # queuePushes /\ Len(m_queue) = m_max_size[1])
            => m_queue' = Append(Tail(m_queue), queuePushes')]_vars

\* C40: a URingBuffer of capacity N >= 1 is a bounded FIFO of capacity N that
\* overwrites its oldest item: it holds the FIFO's items in the FIFO's order,
\* size() is their number (at most N), full() holds exactly when that is N,
\* empty() exactly when it is 0, pop returns the oldest item (nothing when
\* empty) and peek the newest.
C40_RingIsBoundedFifo ==
    m_capacity > 0 =>
        /\ RingSize = Len(fifo)
        /\ Len(fifo) <= m_capacity
        /\ m_full <=> Len(fifo) = m_capacity
        /\ empty_locked <=> Len(fifo) = 0
        /\ fifo = [k \in 1..RingSize |-> m_buffer[(m_tail + k - 1) % m_capacity]]
        /\ ringRet = fifoRet

C40_Witness ==
    /\ m_capacity = 2 /\ ringPushes = 3
    /\ ringOp = "pop" /\ ringRet = Some(2)
    /\ RingSize = 1

====
